---- MODULE Spec2Model ----
(***************************************************************************)
(* Model of the live playback engine of musicbox1 (src/src/musicEngine.ts): *)
(* the MusicEngine life cycle (start / stop), the look-ahead scheduler, the *)
(* voice pool and the Web Audio node graph the engine wires and releases.   *)
(*                                                                         *)
(* Time is counted in milliseconds of the playback clock                    *)
(* (audioContext.currentTime), ratios in percent.  In the life cycle and    *)
(* the scheduler bpm ranges over tempi whose sixteenth note is a whole      *)
(* number of milliseconds, so the grid arithmetic is exact there; the       *)
(* rounding of quantizeToSixteenth is studied apart, in floating point.     *)
(*                                                                         *)
(* Three specifications share the operations: Spec (the life cycle under    *)
(* every failure of the backend), SpecSched (the scheduler under every      *)
(* timing of its ticks) and SpecQuantize (quantizeToSixteenth alone).       *)
(***************************************************************************)
EXTENDS Integers, Sequences, FiniteSets, TLC

(***************************************************************************)
(* Bounds of the model                                                     *)
(***************************************************************************)
MaxClock == 3100          \* the playback clock is explored up to this value
MaxPending == 2           \* callbacks (resume, setTimeout) pending at one time
MaxTicks == 2             \* setTimeout callbacks that run
DurDraws == {0}           \* draws of Math.random() for the note length, in %
\* Life-cycle exploration: sparse notes, every failure of the backend.
LifeSteps == {1040}       \* amounts by which the clock is seen to advance
LifeDelays == {1000}      \* draws of generateExponentialDelay(), in ms
\* Scheduler exploration: dense and sparse notes, punctual and late ticks.
SchedSteps == {1040, 3000}
MaxStarts == 1            \* start() calls in flight at once, scheduler exploration
SchedDelays == {0, 1000}
Errors == {"NotAllowedError", "InvalidStateError"}
BpmChoices == {300}       \* tempo set through setBpm before playback
\* Graph exploration: every relation graph of up to MaxNodes nodes.
MaxNodes == 3
\* Duration exploration: every symbolic duration at every tempo 1..MaxBpm.
MaxBpm == 300
\* Parameter exploration: the partial updates setSynthParams is called with:
\* a change of filter order in either direction, a retargeting of the filter
\* with the delay switched on and a feedback above the clamp, the delay
\* switched off, a change of release and note length in one call, and the
\* whole structure as the control surface sends it.
ParamUpdates ==
  { [delay |-> [filterOrder |-> 24]],
    [delay |-> [filterOrder |-> 6]],
    [delay |-> [enabled |-> TRUE, feedback |-> 99, mix |-> 50,
                filterType |-> "highpass", filterFrequency |-> 500]],
    [delay |-> [enabled |-> FALSE]],
    [envelope |-> [release |-> 300], maxNoteDuration |-> 600],
    [envelope |-> [attack |-> 10, decay |-> 100, sustain |-> 80, release |-> 300],
     vibrato |-> [rate |-> 4800, depth |-> 3],
     tremolo |-> [rate |-> 2100, depth |-> 250],
     delay |-> [enabled |-> TRUE, duration |-> <<"1", "/", "8">>, feedback |-> 40,
                mix |-> 30, filterType |-> "lowpass", filterFrequency |-> 2000,
                filterResonance |-> 100, filterOrder |-> 12],
     maxNoteDuration |-> 600] }
\* Setter exploration: a tempo below the clamp; the delay given another
\* length; ticks that come late.
SetterTempi == {10}
SetterUpdates == { [delay |-> [duration |-> <<"1", "/", "8">>]] }
SetterSteps == {3000}
\* Envelope exploration: the sliders of the control surface at their ends,
\* slow envelope with short notes and fast envelope with long notes.
SliderUpdates ==
  { [envelope |-> [attack |-> 1000, decay |-> 2000, sustain |-> 100, release |-> 100],
     maxNoteDuration |-> 500],
    [envelope |-> [attack |-> 1, decay |-> 10, sustain |-> 0, release |-> 5000],
     maxNoteDuration |-> 10000] }
\* Voice-pool exploration: notes of one length, triggered before and after a
\* pause that outlasts them.
PoolDurations == {200}
PoolSteps == {3000}
\* Cleanup exploration: up to MaxPool voices, the clock stepping onto and
\* past the instant 0.5 s after a voice has ended.
MaxPool == 2
CleanupSteps == {100, 2520}
\* Offline exploration: exports of up to MaxHyperbars hyperbars.
MaxHyperbars == 1
VariedNotes == 1          \* notes of a generation whose draws vary
FirstDraws == {0, 100, 3150, 3200}   \* first delay drawn by a start() followed
LaterDraws == {3200}                 \* the delays it draws later
TrimSamples == 6           \* samples of a buffer handed to trimSilence
TrimRates == {2, 4}        \* its frames a second
\* its samples: silent, at the threshold, and beyond it
TrimChoices == {0, 10, 0 - 11}
GenHyperbars == 2         \* hyperbars of a generation followed note by note
\* draws of the delay in such a generation: none, short, up to and onto the
\* first hop, and past two hops at once
GenDelays == {0, 100, 3150, 3200, 6500}
NoteDraws == {0, 50, 99}  \* draws of Math.random() for one note, in %
NoteOnsets == {0, 1230}   \* the start of that note, in ms
VoiceHorizon == 8000      \* the playback clock of the voice-pool exploration, in ms
VoiceDelays == {1000, 2000}
VoiceSteps == {50}        \* how long after the last tick the timer fires
ExportDelays == {100, 100000}    \* draws of the delay to the next note in an export, ms
ExportTempi == {10, 120, 400}   \* arguments of setBpm before an export
MaxFrames == 2            \* frames of a buffer handed to audioBufferToWav
SampleRates == {2, 44100}
SampleChoices == {0 - 12000, 0 - 1, 0, 5000, 10000}
VlqValues ==
  (0 - 1)..300 \cup {16383, 16384, 2097151, 2097152, 268435455, 268435456}
GenDraws == {0}           \* draws of Math.random() for pitch and octave, in %
\* Arithmetic exploration: quantizeToSixteenth in binary floating point.
Precision == 9            \* bits of the significand (a double has 53)
FracBits == 14            \* a number is held as a count of 2^-FracBits
MaxTime == 120            \* input times are the literals 0.00 .. 1.20 s
QuantBpms == {20, 50, 100, 120, 300}

(***************************************************************************)
(* Program constants                                                       *)
(***************************************************************************)
MAX_VOICES == 32
BARS_PER_CHANGE == 4
LookAhead == 200          \* const lookAhead = 0.2
PeakLevel == 300          \* the envelope peak 0.3, in thousandths
MinLead == 20             \* currentTime + 0.02
MaxNotesPerTick == 3      \* notesTriggered < 3
MinDelay == 10            \* Math.max(0.01, ...)
FirstNoteOffset == 100    \* startTime + 0.1
TickPeriod == 50          \* setTimeout(() => this.scheduler(), 50)
VoiceGrace == 500         \* voice.endTime < now - 0.5
OCTAVE_MIN == 4
OCTAVE_MAX == 7

DEFAULT_SYNTH_PARAMS ==
  [ envelope |-> [attack |-> 10, decay |-> 100, sustain |-> 80, release |-> 1800],
    vibrato |-> [rate |-> 4800, depth |-> 3],
    tremolo |-> [rate |-> 2100, depth |-> 250],
    delay |-> [enabled |-> FALSE, duration |-> <<"1", "/", "4">>, feedback |-> 40,
               mix |-> 30, filterType |-> "lowpass", filterFrequency |-> 2000,
               filterResonance |-> 100, filterOrder |-> 12],
    maxNoteDuration |-> 2400,
    \* maxNoteDuration as App.vue declares it, a duration name
    maxNoteName |-> <<"1", "/", "4">> ]

(***************************************************************************)
(* The relation graph dataset (pcsGraphData.json is not part of the         *)
(* sources): a two-node graph, node 1 with one neighbour, node 2 with none. *)
(***************************************************************************)
GraphNodes == << {0, 4, 7}, {2, 5, 9} >>
GraphAdjacency == << <<2>>, <<>> >>
\* pcsGraphData as the constructor of PcsRelationGraph loads it
Dataset == [nodes |-> GraphNodes, adjacency |-> GraphAdjacency]
\* a dataset of zero nodes
NoNodes == [nodes |-> <<>>, adjacency |-> <<>>]
\* a dataset one node of which is the empty pitch-class set
Sparse == [nodes |-> << {}, {0, 4, 7} >>, adjacency |-> << <<2>>, <<1>> >>]

\* the smaller of two numbers, where the program takes the larger
Min(a, b) == IF a <= b THEN a ELSE b
\* Math.max
Max(a, b) == IF a >= b THEN a ELSE b
Range(s) == {s[i] : i \in 1..Len(s)}
\* Math.ceil(a / b) for a >= 0, b > 0
CeilDiv(a, b) == (a + b - 1) \div b

(***************************************************************************)
(* Audio nodes and the connection graph kept by the playback backend        *)
(***************************************************************************)
Node(r, i, k) == [role |-> r, id |-> i, idx |-> k]
Null == Node("null", 0, 0)
destination == Node("destination", 0, 0)

\* The values the parameters of the delay chain are set or aimed at: times
\* in ms, gains in percent; all zero while the chain does not exist.
NoParams == [delayTime |-> 0, feedback |-> 0, dry |-> 0, wet |-> 0, filters |-> <<>>]

connect(E, a, b) == E \cup {<<a, b>>}
\* node.disconnect(): every outgoing connection of the node is removed
disconnect(E, a) == {c \in E : c[1] # a}

RECURSIVE ReachFrom(_, _)
ReachFrom(E, S) ==
  LET T == S \cup {c[2] : c \in {d \in E : d[1] \in S}}
  IN IF T = S THEN S ELSE ReachFrom(E, T)
\* a signal path leads from node n to the playback destination
ConnectedToDestination(E, n) == destination \in ReachFrom(E, {n})

\* The nodes of a connection set.
NodesOf(E) == {c[1] : c \in E} \cup {c[2] : c \in E}

VARIABLES
  audioContext,       \* "none" (handle null) or the context's state
  backendQ,           \* requests the backend has not completed yet
  clock,              \* audioContext.currentTime
  bpm,
  isPlaying,
  schedulerId,        \* 0 is null
  timers,             \* ids of the pending setTimeout callbacks
  masterGain, reverbNode, delayNode, delayFeedbackGain,
  delayDryGain, delayWetGain, delayInputGain,
  delayFilters,
  voices,
  edges,              \* connections between audio nodes
  audioParams,        \* delayTime, gain and filter parameters of the chain
  pcsGraph,           \* pcsGraph.nodes and pcsGraph.adjacency
  currentIndex,       \* pcsGraph.currentIndex (1-based)
  activePitchClasses,
  nextNoteTime,
  nextGraphHopTime,
  synthParams,
  ticks,              \* setTimeout callbacks run so far
  playState,          \* value of the last play-state-changed notification
  startResult,        \* how the last start() settled
  backendError,       \* the last error the backend raised in start()
  seed,               \* timing read when the last handler set isPlaying
  tick,               \* what scheduler() read and emitted in the last handler
  released,           \* what stop() was asked to release in the last handler
  quantized,          \* the last call of quantizeToSixteenth: input, tempo, result
  stopInStart,        \* stop() came while a start() was awaiting, none since
  lastOnset,          \* onset of the last note of the session (0: none yet)
  lived,              \* the notes of a playback followed from clock 0
  returned,           \* the last direct call: its name, arguments and result
  lastOp              \* the handler that ran last

vars == << audioContext, backendQ, clock, bpm, isPlaying, schedulerId, timers,
           masterGain, reverbNode, delayNode, delayFeedbackGain, delayDryGain,
           delayWetGain, delayInputGain, delayFilters, voices, edges,
           audioParams, pcsGraph, currentIndex, activePitchClasses, nextNoteTime,
           nextGraphHopTime, synthParams, ticks, playState, startResult,
           backendError, seed, tick, released, quantized, stopInStart, lastOnset,
           lived, returned, lastOp >>

\* The whole state as one record, so that a handler is a function on it.
World ==
  [ audioContext |-> audioContext, backendQ |-> backendQ, clock |-> clock,
    bpm |-> bpm, isPlaying |-> isPlaying, schedulerId |-> schedulerId,
    timers |-> timers, masterGain |-> masterGain, reverbNode |-> reverbNode,
    delayNode |-> delayNode, delayFeedbackGain |-> delayFeedbackGain,
    delayDryGain |-> delayDryGain, delayWetGain |-> delayWetGain,
    delayInputGain |-> delayInputGain, delayFilters |-> delayFilters,
    voices |-> voices, edges |-> edges, pcsGraph |-> pcsGraph,
    returned |-> returned, audioParams |-> audioParams,
    currentIndex |-> currentIndex,
    activePitchClasses |-> activePitchClasses, nextNoteTime |-> nextNoteTime,
    nextGraphHopTime |-> nextGraphHopTime, synthParams |-> synthParams,
    ticks |-> ticks, playState |-> playState, startResult |-> startResult,
    backendError |-> backendError, seed |-> seed, tick |-> tick,
    released |-> released, stopInStart |-> stopInStart, lastOnset |-> lastOnset,
    lived |-> lived,
    lastOp |-> lastOp ]

Becomes(w) ==
  /\ audioContext' = w.audioContext /\ backendQ' = w.backendQ
  /\ clock' = w.clock /\ bpm' = w.bpm /\ isPlaying' = w.isPlaying
  /\ schedulerId' = w.schedulerId /\ timers' = w.timers
  /\ masterGain' = w.masterGain /\ reverbNode' = w.reverbNode
  /\ delayNode' = w.delayNode /\ delayFeedbackGain' = w.delayFeedbackGain
  /\ delayDryGain' = w.delayDryGain /\ delayWetGain' = w.delayWetGain
  /\ delayInputGain' = w.delayInputGain /\ delayFilters' = w.delayFilters
  /\ voices' = w.voices /\ edges' = w.edges /\ currentIndex' = w.currentIndex
  /\ pcsGraph' = w.pcsGraph /\ returned' = w.returned
  /\ audioParams' = w.audioParams
  /\ activePitchClasses' = w.activePitchClasses
  /\ nextNoteTime' = w.nextNoteTime /\ nextGraphHopTime' = w.nextGraphHopTime
  /\ synthParams' = w.synthParams /\ ticks' = w.ticks
  /\ playState' = w.playState /\ startResult' = w.startResult
  /\ backendError' = w.backendError /\ seed' = w.seed /\ tick' = w.tick
  /\ released' = w.released /\ stopInStart' = w.stopInStart
  /\ lastOnset' = w.lastOnset /\ lived' = w.lived
  /\ UNCHANGED quantized
  /\ lastOp' = w.lastOp


(***************************************************************************)
(* Node identities.  A voice's seven nodes share one id, and so do the     *)
(* nodes one start() builds.  The backend reclaims a node once the engine  *)
(* holds no reference to it or to a node that feeds it, so its id is free  *)
(* again; the engine cannot observe the difference.                        *)
(***************************************************************************)
LiveIds(w) ==
  {n.id : n \in ({ w.masterGain, w.delayNode, w.delayFeedbackGain, w.delayDryGain,
                   w.delayWetGain, w.delayInputGain, w.reverbNode } \ {Null})}
  \cup {w.delayFilters[i].id : i \in 1..Len(w.delayFilters)}
  \cup {w.voices[i].oscillator.id : i \in 1..Len(w.voices)}

collect(w) ==
  LET live == LiveIds(w)
      roots == {n \in NodesOf(w.edges) : n.id \in live}
      alive == ReachFrom(w.edges, roots)
  IN IF live = {} THEN [w EXCEPT !.edges = {}]
     ELSE IF \A c \in w.edges : c[1].id \in live THEN w
     ELSE [w EXCEPT !.edges = {c \in @ : c[1] \in alive}]

FreshId(w) ==
  LET used == LiveIds(w) \cup {n.id : n \in NodesOf(w.edges)}
  IN CHOOSE i \in 1..(Cardinality(used) + 1) : i \notin used

(***************************************************************************)
(* Timing getters and the note-onset arithmetic                            *)
(***************************************************************************)
sixteenthSeconds(b) == (60000 \div b) \div 4
barSeconds(b) == 4 * (60000 \div b)

\* a time left where it falls
unquantized(time, b) == time

quantizeToSixteenth(time, b) ==
  CeilDiv(time, sixteenthSeconds(b)) * sixteenthSeconds(b)

\* a start() whose first redraw of the next note time is lost
keepNextNote(w, currentTime, delta) == w

\* delta is the draw of generateExponentialDelay()
scheduleNextNote(w, currentTime, delta) ==
  LET deltaSeconds == Max(MinDelay, delta)
      target == currentTime + deltaSeconds
  IN [w EXCEPT !.nextNoteTime = quantizeToSixteenth(target, w.bpm)]

(***************************************************************************)
(* The same arithmetic as the program computes it, in binary floating      *)
(* point: every operation rounds its exact result to the nearest number    *)
(* with Precision significant bits, ties to even.  A number x is held as   *)
(* the integer x * 2^FracBits.                                             *)
(***************************************************************************)
\* the exponent e with 2^(Precision-1) <= (a/b) / 2^e < 2^Precision, and
\* the least exponent for the numbers too small to have one (subnormals)
ExponentOf(a, b) ==
  IF a * 2^FracBits < 2^(Precision - 1) * b THEN 0 - FracBits
  ELSE CHOOSE e \in (0 - FracBits)..30 :
         IF e >= 0
         THEN 2^(Precision - 1) * b * 2^e <= a /\ a < 2^Precision * b * 2^e
         ELSE 2^(Precision - 1) * b <= a * 2^(0 - e) /\ a * 2^(0 - e) < 2^Precision * b

\* the floating-point number nearest to a / b   (a >= 0, b > 0)
Round(a, b) ==
  IF a = 0 THEN 0
  ELSE LET e == ExponentOf(a, b)
           num == IF e >= 0 THEN a ELSE a * 2^(0 - e)
           den == IF e >= 0 THEN b * 2^e ELSE b
           q == num \div den
           r == num % den
           m == IF 2 * r > den \/ (2 * r = den /\ q % 2 = 1) THEN q + 1 ELSE q
       IN m * 2^(e + FracBits)

\* (60 / this.bpm) / 4: the division by 4 is exact
sixteenthSecondsFloat(b) == Round(60, b) \div 4

\* Math.ceil(time / this.sixteenthSeconds) * this.sixteenthSeconds
quantizeToSixteenthFloat(time, b) ==
  LET s == sixteenthSecondsFloat(b)
      x == Round(time, s)
      n == CeilDiv(x, 2^FracBits)
  IN Round(n * s, 2^FracBits)

(***************************************************************************)
(* PcsRelationGraph                                                        *)
(***************************************************************************)
(***************************************************************************)
(* Symbolic durations.  A duration name is the sequence of its characters; *)
(* a length in seconds is the exact fraction [n / d].                      *)
(***************************************************************************)
Frac(n, d) == [n |-> n, d |-> d]
Times(x, n, d) == [n |-> x.n * n, d |-> x.d * d]
Same(x, y) == x.n * y.d = y.n * x.d

\* the base durations of the type MusicalDuration, musicEngine.ts and App.vue
BaseNames ==
  { <<"1", "/", "1">>, <<"1", "/", "2">>, <<"1", "/", "4">>, <<"1", "/", "8">>,
    <<"1", "/", "1", "6">>, <<"1", "/", "3", "2">> }
BaseNamesApp == BaseNames \cup { <<"2", "/", "1">> }

MUSICAL_DURATIONS ==
  BaseNames \cup { Append(n, "D") : n \in BaseNames }
            \cup { Append(n, "T") : n \in BaseNames }
MUSICAL_DURATIONS_App ==
  BaseNamesApp \cup { Append(n, "D") : n \in BaseNamesApp }
               \cup { Append(n, "T") : n \in BaseNamesApp }

\* a table of base values without entries
noBaseValues(wholeNote) == [n \in {} |-> wholeNote]

\* the table baseValues of musicEngine.ts
baseValues(wholeNote) ==
  [n \in BaseNames |->
     CASE n = <<"1", "/", "1">> -> wholeNote
       [] n = <<"1", "/", "2">> -> Times(wholeNote, 1, 2)
       [] n = <<"1", "/", "4">> -> Times(wholeNote, 1, 4)
       [] n = <<"1", "/", "8">> -> Times(wholeNote, 1, 8)
       [] n = <<"1", "/", "1", "6">> -> Times(wholeNote, 1, 16)
       [] n = <<"1", "/", "3", "2">> -> Times(wholeNote, 1, 32)]

\* the table baseValues of App.vue, which adds the double whole note
baseValuesApp(wholeNote) ==
  [n \in BaseNamesApp |->
     IF n = <<"2", "/", "1">> THEN Times(wholeNote, 2, 1)
     ELSE baseValues(wholeNote)[n]]

\* duration.replace(/[TD]$/, '')
StripModifier(duration) ==
  IF Len(duration) > 0 /\ duration[Len(duration)] \in {"T", "D"}
  THEN SubSeq(duration, 1, Len(duration) - 1) ELSE duration

\* duration.slice(-1)
LastChar(duration) == IF Len(duration) > 0 THEN duration[Len(duration)] ELSE ""

\* the body both versions share, over the table of each
durationFrom(table, wholeNote, duration) ==
  LET base == StripModifier(duration)
      modifier == LastChar(duration)
      \* baseValues[base] || wholeNote / 4: undefined and 0 are falsy
      value == IF base \notin DOMAIN table THEN Times(wholeNote, 1, 4)
               ELSE IF table[base].n = 0 THEN Times(wholeNote, 1, 4)
               ELSE table[base]
  IN IF modifier = "T" THEN Times(value, 2, 3)
     ELSE IF modifier = "D" THEN Times(value, 3, 2)
     ELSE value

\* beatSeconds * 4, beatSeconds being 60 / bpm
wholeNoteAt(b) == Times(Frac(60, b), 4, 1)

musicalDurationToSeconds(duration, b) ==
  durationFrom(baseValues(wholeNoteAt(b)), wholeNoteAt(b), duration)

musicalDurationToSecondsApp(duration, b) ==
  durationFrom(baseValuesApp(wholeNoteAt(b)), wholeNoteAt(b), duration)

\* what indexing past the end of an array yields
Undefined == "undefined"

\* an advance() that ignores the neighbour list
advanceAnywhere(g, idx) == 1..Len(g.nodes)

\* the indices advance() may move to
advance(g, idx) ==
  IF Len(g.nodes) = 0 THEN {idx}
  ELSE IF Len(g.adjacency[idx]) > 0 THEN Range(g.adjacency[idx])
  ELSE 1..Len(g.nodes)

\* current(): this.nodes[this.currentIndex]
current(w) ==
  IF w.currentIndex \in 1..Len(w.pcsGraph.nodes)
  THEN w.pcsGraph.nodes[w.currentIndex] ELSE Undefined

Emit(w, e, t, d) ==
  [w EXCEPT !.tick.log = Append(@, [ev |-> e, at |-> t, due |-> d])]

\* current().asSequence() is a call on undefined: a TypeError
refreshThrows(w) == w.currentIndex \notin 1..Len(w.pcsGraph.nodes)

\* refreshPitchClasses() where it does not throw
refreshPitchClasses(w) ==
  Emit([w EXCEPT !.activePitchClasses = current(w)], "chord", w.currentIndex, 0)

(***************************************************************************)
(* Voices                                                                  *)
(***************************************************************************)
VoiceNodes(vs) == UNION {{v.oscillator, v.gainNode} : v \in Range(vs)}

\* a cleanup that removes nothing
keepVoices(w) == w

cleanupOldVoices(w) ==
  IF w.audioContext = "none" THEN w
  ELSE LET now == w.clock
           done(v) == v.endTime < now - VoiceGrace
           gone == VoiceNodes(SelectSeq(w.voices, done))
           keep(v) == ~done(v)
       IN [w EXCEPT !.voices = SelectSeq(@, keep),
                    !.edges = {c \in @ : c[1] \notin gone}]

\* a pool that never evicts
evictNone(w) == w

evictOldest(w) ==
  IF Len(w.voices) >= MAX_VOICES
  THEN LET oldest == Head(w.voices)
       IN [w EXCEPT !.voices = Tail(@),
                    !.edges = disconnect(disconnect(@, oldest.oscillator),
                                         oldest.gainNode)]
  ELSE w

\* the automation of envelopeGain.gain, in call order: times in ms, values
\* in thousandths, sustain in percent
envelopeAutomation(when, duration, envelope) ==
  LET peakTime == when + envelope.attack
      decayEndTime == peakTime + envelope.decay
      releaseStartTime == when + duration
      releaseEndTime == releaseStartTime + envelope.release
  IN << [call |-> "setValueAtTime", value |-> 0, time |-> when],
        [call |-> "linearRampToValueAtTime", value |-> PeakLevel, time |-> peakTime],
        [call |-> "linearRampToValueAtTime",
         value |-> (PeakLevel * envelope.sustain) \div 100, time |-> decayEndTime],
        [call |-> "setValueAtTime",
         value |-> (PeakLevel * envelope.sustain) \div 100, time |-> releaseStartTime],
        [call |-> "linearRampToValueAtTime", value |-> 0, time |-> releaseEndTime] >>

triggerNote(w, when, duration) ==
  IF w.audioContext = "none" \/ w.masterGain = Null THEN w
  ELSE LET w2 == evictOldest(cleanupOldVoices(w))
           n == FreshId(w2)
           oscillator == Node("oscillator", n, 0)
           vibratoLFO == Node("vibratoLFO", n, 0)
           vibratoGain == Node("vibratoGain", n, 0)
           tremoloLFO == Node("tremoloLFO", n, 0)
           tremoloGain == Node("tremoloGain", n, 0)
           tremoloDepthNode == Node("tremoloDepthNode", n, 0)
           envelopeGain == Node("envelopeGain", n, 0)
           releaseStartTime == when + duration
           releaseEndTime == releaseStartTime + w.synthParams.envelope.release
       IN [w2 EXCEPT
             !.edges = @ \cup { <<vibratoLFO, vibratoGain>>,
                                <<vibratoGain, oscillator>>,
                                <<tremoloLFO, tremoloDepthNode>>,
                                <<oscillator, envelopeGain>>,
                                <<envelopeGain, tremoloGain>>,
                                <<tremoloDepthNode, tremoloGain>>,
                                <<tremoloGain, w.masterGain>> },
             !.voices = Append(@, [oscillator |-> oscillator,
                                   gainNode |-> envelopeGain,
                                   startTime |-> when,
                                   endTime |-> releaseEndTime,
                                   automation |->
                                     envelopeAutomation(when, duration,
                                                        w.synthParams.envelope)])]

\* a trigger that does not look at the active pitch classes
triggerAnyway(w, whenTime, r) ==
  LET duration == (w.synthParams.maxNoteDuration * (100 + r)) \div 200
  IN [Emit(triggerNote(w, whenTime, duration), "note", whenTime, w.nextNoteTime)
        EXCEPT !.lastOnset = whenTime]

\* r is the draw of Math.random() for the duration, in percent
triggerRandomNote(w, whenTime, r) ==
  IF w.activePitchClasses = {} THEN w
  ELSE LET duration == (w.synthParams.maxNoteDuration * (100 + r)) \div 200
       IN [Emit(triggerNote(w, whenTime, duration), "note", whenTime,
                w.nextNoteTime)
             EXCEPT !.lastOnset = whenTime]

(***************************************************************************)
(* The scheduler tick                                                      *)
(***************************************************************************)
NewTimer(w) == CHOOSE i \in 1..(Cardinality(w.timers) + 1) : i \notin w.timers

IdleTick == [ran |-> FALSE, now |-> 0, hopAt |-> 0, prev |-> 0, log |-> <<>>,
             handled |-> 0]
NoSeed == [now |-> 0, delta |-> 0, nextNoteTime |-> 0, nextGraphHopTime |-> 0]
NoRelease == [nodes |-> {}, threw |-> Null, timer |-> 0]

\* a handler begins: nothing read, emitted, released or settled yet
Enter(w) ==
  [collect(w) EXCEPT !.tick = IdleTick, !.seed = NoSeed, !.released = NoRelease,
                     !.startResult = "none", !.backendError = "none"]

\* delays: the values generateExponentialDelay() may draw
RECURSIVE noteLoop(_, _, _, _)
noteLoop(w, currentTime, notesTriggered, delays) ==
  IF w.nextNoteTime <= currentTime + LookAhead /\ notesTriggered < MaxNotesPerTick
  THEN UNION {
         noteLoop(
           scheduleNextNote(
             triggerRandomNote(w, Max(w.nextNoteTime, currentTime + MinLead), x[2]),
             w.nextNoteTime, x[1]),
           currentTime, notesTriggered + 1, delays)
         : x \in delays \X DurDraws }
  ELSE { [w EXCEPT !.tick.handled = notesTriggered] }

\* a tick that never hops
noHop(w, currentTime) == { w }

graphHop(w, currentTime) ==
  IF currentTime >= w.nextGraphHopTime - LookAhead
  THEN { LET hopped == Emit([w EXCEPT !.currentIndex = i], "advance", 0, 0)
         IN IF refreshThrows(hopped) THEN Emit(hopped, "TypeError", 0, 0)
            ELSE [refreshPitchClasses(hopped)
                    EXCEPT !.nextGraphHopTime = @ + barSeconds(w.bpm) * BARS_PER_CHANGE]
         : i \in advance(w.pcsGraph, w.currentIndex) }
  ELSE { w }

\* the tick was left by an exception
Threw(w) ==
  Len(w.tick.log) > 0 /\ w.tick.log[Len(w.tick.log)].ev = "TypeError"

\* The outcomes of one run of scheduler(), over its random draws.
scheduler(w, delays) ==
  IF ~w.isPlaying \/ w.audioContext = "none"
  THEN { [w EXCEPT !.lastOp = "tickIdle"] }
  ELSE LET currentTime == w.clock
           w0 == [w EXCEPT !.tick = [ran |-> TRUE, now |-> currentTime,
                                     hopAt |-> w.nextGraphHopTime,
                                     prev |-> w.lastOnset,
                                     log |-> <<>>, handled |-> 0]]
       IN { IF Threw(n) THEN [n EXCEPT !.lastOp = "tickThrew"]
            ELSE [n EXCEPT !.schedulerId = NewTimer(n),
                           !.timers = @ \cup {NewTimer(n)},
                           !.lastOp = "tick"]
            : n \in UNION { IF Threw(h) THEN {h}
                            ELSE noteLoop(h, currentTime, 0, delays)
                            : h \in graphHop(w0, currentTime) } }

(***************************************************************************)
(* Offline generation (App.vue)                                            *)
(***************************************************************************)
\* Pcs12.asSequence(): the pitch classes in ascending order
asSequence(S) ==
  CHOOSE s \in [1..Cardinality(S) -> S] :
    \A i \in 1..Cardinality(S), j \in 1..Cardinality(S) : i < j => s[i] < s[j]

\* a generation that walks the graph of the live engine
liveGraph == "live"

\* the graph generateMusicData walks: new PcsRelationGraph()
generationGraph == "local"

\* currentIndex of the graph a generation walks, and its assignment
indexOf(st) == IF st.graph = "live" THEN st.w.currentIndex ELSE st.index
withIndex(st, i) ==
  IF st.graph = "live" THEN [st EXCEPT !.w.currentIndex = i]
  ELSE [st EXCEPT !.index = i]

\* currentPitchClasses = localPcsGraph.current().asSequence()
readPitchClasses(st) ==
  IF indexOf(st) \in 1..Len(st.w.pcsGraph.nodes)
  THEN [st EXCEPT !.pcs = asSequence(st.w.pcsGraph.nodes[indexOf(st)])]
  ELSE [st EXCEPT !.threw = TRUE]

\* an inner loop that makes one hop at most before a note
hopOnce(st, totalDuration) ==
  IF st.threw THEN {st}
  ELSE IF st.nextNoteTime >= st.nextGraphHopTime /\ st.nextGraphHopTime < totalDuration
  THEN { LET hopped == readPitchClasses([withIndex(st, i) EXCEPT !.advances = @ + 1])
         IN IF hopped.threw THEN hopped
            ELSE [hopped EXCEPT !.nextGraphHopTime =
                                   @ + barSeconds(st.w.bpm) * BARS_PER_CHANGE]
         : i \in advance(st.w.pcsGraph, indexOf(st)) }
  ELSE {st}

\* the inner loop: the hops due before the note at nextNoteTime
RECURSIVE generateHops(_, _)
generateHops(st, totalDuration) ==
  IF st.threw THEN {st}
  ELSE IF st.nextNoteTime >= st.nextGraphHopTime /\ st.nextGraphHopTime < totalDuration
  THEN UNION { LET hopped == readPitchClasses([withIndex(st, i) EXCEPT
                                                 !.advances = @ + 1])
               IN IF hopped.threw THEN {hopped}
                  ELSE generateHops([hopped EXCEPT !.nextGraphHopTime =
                                        @ + barSeconds(st.w.bpm) * BARS_PER_CHANGE],
                                    totalDuration)
               : i \in advance(st.w.pcsGraph, indexOf(st)) }
  ELSE {st}

\* the note generated at nextNoteTime; x: the draws for pitch, octave, length
generateNote(st, x) ==
  IF Len(st.pcs) = 0 THEN st
  ELSE LET pitchClass == st.pcs[1 + (x[1] * Len(st.pcs)) \div 100]
           octave == OCTAVE_MIN + (x[2] * (OCTAVE_MAX - OCTAVE_MIN + 1)) \div 100
           most == musicalDurationToSecondsApp(st.w.synthParams.maxNoteName, st.w.bpm)
           maxDurationSeconds == (most.n * 1000) \div most.d
       IN [st EXCEPT !.notes = Append(@, [midiNote |-> octave * 12 + pitchClass,
                                          startTime |-> st.nextNoteTime,
                                          duration |-> (maxDurationSeconds * (100 + x[3]))
                                                         \div 200]),
                     !.trace = Append(@, [onset |-> st.nextNoteTime,
                                          advances |-> st.advances])]

\* the draws of 0.5 + Math.random() * 0.5 for the note after k notes: the
\* first notes of a generation are of two lengths, the later ones of one
LengthDraws(k) == IF k < VariedNotes THEN DurDraws \cup {37} ELSE DurDraws

\* the draws of generateExponentialDelay() after the note that follows k
\* notes: the first notes are followed by any of the delays, the later ones
\* by the longest
DelayDraws(delays, k) ==
  IF k < VariedNotes THEN delays
  ELSE {CHOOSE d \in delays : \A e \in delays : e <= d}

\* the outer loop, over the draws of generateExponentialDelay()
RECURSIVE generateNotes(_, _, _)
generateNotes(st, totalDuration, delays) ==
  IF st.threw \/ st.nextNoteTime >= totalDuration THEN {st}
  ELSE UNION { IF h.threw THEN {h}
               ELSE UNION { generateNotes(
                              [generateNote(h, <<x[2], x[3], x[4]>>)
                                 EXCEPT !.nextNoteTime =
                                   quantizeToSixteenth(@ + Max(MinDelay, x[1]), st.w.bpm)],
                              totalDuration, delays)
                            : x \in DelayDraws(delays, Len(h.notes)) \X GenDraws
                                       \X GenDraws \X LengthDraws(Len(h.notes)) }
               : h \in generateHops(st, totalDuration) }

\* generateMusicData(numHyperbars): every outcome over the random draws
generateMusicData(w, numHyperbars, delays) ==
  LET totalBars == numHyperbars * 8
      totalDuration == totalBars * barSeconds(w.bpm)
      N == Len(w.pcsGraph.nodes)
      fresh == [w |-> w, graph |-> generationGraph, index |-> 1, pcs |-> <<>>,
                nextGraphHopTime |-> barSeconds(w.bpm) * BARS_PER_CHANGE,
                nextNoteTime |-> 0, notes |-> <<>>, threw |-> FALSE,
                \* for the comparison with playback: the first delay drawn,
                \* the advances made, and onset and advances at each note
                d0 |-> 0, advances |-> 0, trace |-> <<>>]
      \* the constructor draws the index of a new graph
      made == IF fresh.graph = "live" THEN {fresh}
              ELSE { [fresh EXCEPT !.index = i] : i \in IF N = 0 THEN {1} ELSE 1..N }
  IN UNION { UNION { generateNotes([readPitchClasses(m) EXCEPT !.nextNoteTime =
                                       quantizeToSixteenth(d0, w.bpm),
                                     !.d0 = d0],
                                   totalDuration, delays)
                     : d0 \in delays }
             : m \in made }

\* a setBpm that rewinds the scheduler to the start of the clock
setBpmAndRewind(w, b) ==
  [w EXCEPT !.bpm = Max(20, Min(300, b)), !.nextNoteTime = 0, !.nextGraphHopTime = 0]

\* setBpm(b): the tempo clamped to [20, 300]
setBpm(w, b) == [w EXCEPT !.bpm = Max(20, Min(300, b))]

(***************************************************************************)
(* exportToMidi: the notes as a Standard MIDI File, a sequence of bytes    *)
(***************************************************************************)
TICKS_PER_BEAT == 480
MIDI_HEADER == <<77, 84, 104, 100>>          \* "MThd"
MIDI_TRACK_HEADER == <<77, 84, 114, 107>>    \* "MTrk"

\* Math.round(n / d)   (n >= 0, d > 0)
RoundDiv(n, d) == (2 * n + d) \div (2 * d)

\* bytes.reverse()
reverse(s) == [i \in 1..Len(s) |-> s[Len(s) + 1 - i]]

\* a conversion that cuts the fraction of a tick off
tickBelow(ms, b) == (ms * b * (TICKS_PER_BEAT \div 60)) \div 1000

\* ticksPerSecond = (TICKS_PER_BEAT * this.bpm) / 60 and
\* Math.round(seconds * ticksPerSecond), the time held in milliseconds
tickAt(ms, b) == RoundDiv(ms * b * (TICKS_PER_BEAT \div 60), 1000)


\* a loop that ends every note on the tick it starts on
noteEventsAtOnset(notes, b) ==
  [i \in 1..(2 * Len(notes)) |->
     LET note == notes[(i + 1) \div 2]
     IN [tick |-> tickAt(note.startTime, b),
         type |-> IF i % 2 = 1 THEN "on" ELSE "off",
         note |-> note.midiNote, velocity |-> IF i % 2 = 1 THEN 80 ELSE 0]]

\* the loop over the notes: a note-on and a note-off pushed for each
noteEvents(notes, b) ==
  [i \in 1..(2 * Len(notes)) |->
     LET note == notes[(i + 1) \div 2]
     IN IF i % 2 = 1
        THEN [tick |-> tickAt(note.startTime, b), type |-> "on",
              note |-> note.midiNote, velocity |-> 80]
        ELSE [tick |-> tickAt(note.startTime + note.duration, b), type |-> "off",
              note |-> note.midiNote, velocity |-> 0]]

\* the comparator: a.tick - b.tick || (a.type === 'off' ? -1 : 1)
compare(a, b) ==
  IF a.tick # b.tick THEN a.tick - b.tick
  ELSE IF a.type = "off" THEN 0 - 1 ELSE 1

\* a comparator that looks at the ticks alone
compareTicks(a, b) == a.tick - b.tick

\* The comparator is not consistent for two events of one kind on one tick,
\* so their order is the sorting algorithm's, fixed for a build: an
\* insertion that asks compare(e, element) puts e before the first element
\* it is smaller than; one that asks compare(element, e) walks down from
\* the end past the elements greater than e.
SortBuilds == {"pivotFirst", "elementFirst"}

insertEvent(s, e, build) ==
  LET n == Len(s)
      stops == IF build = "pivotFirst"
               THEN {p \in 1..n : compare(e, s[p]) < 0}
               ELSE {p \in 1..n : \A q \in p..n : compare(s[q], e) > 0}
      p == IF stops = {} THEN n + 1
           ELSE CHOOSE x \in stops : \A y \in stops : x <= y
  IN SubSeq(s, 1, p - 1) \o <<e>> \o SubSeq(s, p, n)

RECURSIVE insertAll(_, _, _)
insertAll(sorted, rest, build) ==
  IF rest = <<>> THEN sorted
  ELSE insertAll(insertEvent(sorted, Head(rest), build), Tail(rest), build)

\* events.sort(comparator)
sortEvents(events, build) == insertAll(<<>>, events, build)

\* the loop of writeVariableLength: the groups above the lowest one, each
\* with the high bit set, least significant first
RECURSIVE higherGroups(_)
higherGroups(value) ==
  IF value > 0 THEN <<(value % 128) + 128>> \o higherGroups(value \div 128)
  ELSE <<>>

\* an encoder that leaves the groups in the order it produced them
writeLowFirst(value) ==
  LET v == IF value < 0 THEN 0 ELSE value
  IN <<v % 128>> \o higherGroups(v \div 128)

\* writeVariableLength(data, value): the bytes pushed to data; value is a
\* 31-bit quantity here, where & and >> act as on the integers
writeVariableLength(value) ==
  LET v == IF value < 0 THEN 0 ELSE value
  IN reverse(<<v % 128>> \o higherGroups(v \div 128))

\* the tempo meta event: microsecondsPerBeat = Math.round(60000000 / bpm)
microsecondsPerBeat(b) == RoundDiv(60000000, b)
tempoEvent(b) ==
  <<0, 255, 81, 3, (microsecondsPerBeat(b) \div 65536) % 256,
    (microsecondsPerBeat(b) \div 256) % 256, microsecondsPerBeat(b) % 256>>

\* the time signature meta event, 4/4
timeSignatureEvent == <<0, 255, 88, 4, 4, 2, 24, 8>>

\* the loop over the sorted events: delta time, status, note, velocity
RECURSIVE noteBytes(_, _)
noteBytes(events, lastTick) ==
  IF events = <<>> THEN <<>>
  ELSE LET event == Head(events)
       IN writeVariableLength(event.tick - lastTick)
          \o (IF event.type = "on"
              THEN <<144, event.note % 128, event.velocity % 128>>
              ELSE <<128, event.note % 128, 0>>)
          \o noteBytes(Tail(events), event.tick)

\* a track that is not closed
noEndOfTrack == <<>>

endOfTrack == <<0, 255, 47, 0>>

trackData(events, b) ==
  tempoEvent(b) \o timeSignatureEvent \o noteBytes(events, 0) \o endOfTrack

\* the four bytes of a 32-bit length, most significant first
bigEndian32(n) ==
  <<(n \div 16777216) % 256, (n \div 65536) % 256, (n \div 256) % 256, n % 256>>

\* the file: header chunk, track header with the length, track data
midiFile(track) ==
  MIDI_HEADER \o <<0, 0, 0, 6>> \o <<0, 0>> \o <<0, 1>>
  \o <<(TICKS_PER_BEAT \div 256) % 256, TICKS_PER_BEAT % 256>>
  \o MIDI_TRACK_HEADER \o bigEndian32(Len(track)) \o track

\* exportToMidi after generateMusicData returned notes: the bytes of the Blob
encodeMidi(notes, b, build) ==
  midiFile(trackData(sortEvents(noteEvents(notes, b), build), b))

(***************************************************************************)
(* exportToWav: the notes rendered by an offline context, trimmed and      *)
(* written as a WAV file.  The context renders RenderRate frames a second  *)
(* (44100 in the program); a sample x is held as the integer x * Unit.     *)
(* What the browser computes is kept to its outline: an oscillator is its  *)
(* amplitude, the LFOs rest at zero, a biquad filter passes its input.     *)
(***************************************************************************)
RenderRate == 2
Unit == 10000
Threshold == Unit \div 1000     \* threshold = 0.001
ReverbTail == 3000         \* reverbTail = 3, and impulseLength = sampleRate * 3
PEAK == (3 * Unit) \div 10      \* the envelope peak 0.3

\* Math.ceil(seconds * sampleRate), the time held in milliseconds
framesIn(ms) == CeilDiv(ms * RenderRate, 1000)

\* the time of frame f, in milliseconds
timeOf(f) == (f * 1000) \div RenderRate

\* The sequences Math.random() can yield while the impulse is filled, in %:
\* draw k is element k of the pattern, taken cyclically.
ImpulsePatterns == { <<10>>, <<10, 90>> }
drawAt(pattern, k) == pattern[(k % Len(pattern)) + 1]

\* an impulse built without Math.random()
fixedDraw(pattern, k) == 50

\* (Math.random() * 2 - 1) for draw k
bipolar(pattern, k) == 2 * drawAt(pattern, k) - 100

\* Math.exp(-t / decayConst) in %, decayConst = 2.5, to the second order
decayEnvelope(ms) == 1250000000 \div (12500000 + 5000 * ms + ms * ms)

\* channelData[i] of the impulse for channel ch: early + noise
impulseSample(pattern, ch, i) ==
  LET k == 2 * (ch * framesIn(ReverbTail) + i)
      isEarly == /\ i * 10 < RenderRate
                 /\ \E d \in {10, 23, 37, 52, 68, 83} :
                      i * 1000 - d * RenderRate \in (1 - RenderRate)..(RenderRate - 1)
      early == IF isEarly THEN (bipolar(pattern, k) * Unit) \div 200 ELSE 0
      noise == (bipolar(pattern, k + 1) * decayEnvelope(timeOf(i)) * 3) \div 10
  IN early + noise

\* convolver.buffer: two channels of impulseLength samples
impulseBuffer(pattern) ==
  LET channel(ch) == SubSeq([i \in 1..framesIn(ReverbTail) |->
                               impulseSample(pattern, ch, i - 1)],
                            1, framesIn(ReverbTail))
  IN <<channel(0), channel(1)>>

\* the automation of envelopeGain.gain for a note, in call order
envelopeEvents(note, envelope) ==
  LET when == note.startTime
      peakTime == when + envelope.attack
      decayEndTime == peakTime + envelope.decay
      releaseStartTime == when + note.duration
      releaseEndTime == releaseStartTime + envelope.release
      held == (PEAK * envelope.sustain) \div 100
  IN << [time |-> when, ramp |-> FALSE, value |-> 0],
        [time |-> peakTime, ramp |-> TRUE, value |-> PEAK],
        [time |-> decayEndTime, ramp |-> TRUE, value |-> held],
        [time |-> releaseStartTime, ramp |-> FALSE, value |-> held],
        [time |-> releaseEndTime, ramp |-> TRUE, value |-> 0] >>

\* the timeline of an AudioParam: its events by time, those of one time in
\* call order
timeline(events) ==
  LET rank(i) == 1 + Cardinality({j \in 1..Len(events) :
                                    \/ events[j].time < events[i].time
                                    \/ events[j].time = events[i].time /\ j < i})
  IN [k \in 1..Len(events) |-> events[CHOOSE i \in 1..Len(events) : rank(i) = k]]

\* the value of an AudioParam at time t, at or after its first event: a ramp
\* runs from the event before it, anything else holds the last value
paramAt(events, t) ==
  LET line == timeline(events)
      past == {k \in 1..Len(line) : line[k].time <= t}
      k == CHOOSE x \in past : \A y \in past : y <= x
  IN IF k < Len(line) /\ line[k + 1].ramp
     THEN line[k].value + ((line[k + 1].value - line[k].value) * (t - line[k].time))
                            \div (line[k + 1].time - line[k].time)
     ELSE line[k].value

\* what a voice feeds into masterGain at time t: the oscillator runs from
\* when to releaseEndTime + 0.1, through the envelope and the tremolo gain
\* 1 - tremoloDepth / 2
voiceAt(note, params, t) ==
  IF t < note.startTime
     \/ t >= note.startTime + note.duration + params.envelope.release + 100
  THEN 0
  ELSE (paramAt(envelopeEvents(note, params.envelope), t)
          * (1000 - params.tremolo.depth \div 2)) \div 1000

\* the output of masterGain (gain 0.5) at frame f
RECURSIVE voicesAt(_, _, _)
voicesAt(notes, params, t) ==
  IF notes = <<>> THEN 0
  ELSE voiceAt(Head(notes), params, t) + voicesAt(Tail(notes), params, t)
masterAt(notes, params, f) == voicesAt(notes, params, timeOf(f)) \div 2

\* Math.ceil(-60 / (20 * Math.log10(feedback))): the repeats after which
\* the echo is 60 dB down, feedback in %, the level kept in millionths
RECURSIVE repeatsTo60dB(_, _)
repeatsTo60dB(feedback, level) ==
  IF level <= 1000 THEN 0
  ELSE 1 + repeatsTo60dB(feedback, (level * feedback) \div 100)

\* delayTail, lastNoteEndTime and totalRenderDuration, in milliseconds
delaySecondsOf(params, b) ==
  LET s == musicalDurationToSecondsApp(params.delay.duration, b)
  IN (s.n * 1000) \div s.d
delayTail(params, b) ==
  IF params.delay.enabled /\ params.delay.feedback > 1 /\ params.delay.feedback < 100
  THEN repeatsTo60dB(params.delay.feedback, 1000000)
         * delaySecondsOf(params, b)
  ELSE 0
RECURSIVE lastNoteEndTime(_, _, _)
lastNoteEndTime(notes, release, soFar) ==
  IF notes = <<>> THEN soFar
  ELSE lastNoteEndTime(Tail(notes), release,
                       Max(soFar, Head(notes).startTime + Head(notes).duration + release))
totalRenderDuration(notes, params, b, numHyperbars) ==
  lastNoteEndTime(notes, params.envelope.release, numHyperbars * 8 * barSeconds(b))
  + Max(delayTail(params, b), ReverbTail) + 1000

\* the delay stage: delayDryGain and delayWetGain into delayMixNode; the
\* delay line in its feedback loop is at least one frame long
RECURSIVE delayedAt(_, _, _, _)
delayedAt(notes, params, b, f) ==
  LET D == Max(1, (delaySecondsOf(params, b) * RenderRate) \div 1000)
  IN IF f < D THEN 0
     ELSE masterAt(notes, params, f - D)
          + (Min(params.delay.feedback, 95) * delayedAt(notes, params, b, f - D)) \div 100
delayMixAt(notes, params, b, f) ==
  IF params.delay.enabled
  THEN ((100 - params.delay.mix) * masterAt(notes, params, f)
        + params.delay.mix * delayedAt(notes, params, b, f)) \div 100
  ELSE masterAt(notes, params, f)

\* the output of the convolver at frame f of channel ch
RECURSIVE convolved(_, _, _, _)
convolved(mix, impulse, f, k) ==
  IF k > Len(impulse) \/ k > f THEN 0
  ELSE (mix[f - k + 1] * impulse[k]) \div Unit + convolved(mix, impulse, f, k + 1)

\* offlineContext.startRendering(): dryGain 0.7 and wetGain 0.3 into the
\* destination, two channels
startRendering(notes, params, b, numHyperbars, pattern) ==
  LET length == framesIn(totalRenderDuration(notes, params, b, numHyperbars))
      mix == SubSeq([f \in 1..length |-> delayMixAt(notes, params, b, f - 1)],
                    1, length)
      impulse == impulseBuffer(pattern)
      channel(ch) ==
        SubSeq([f \in 1..length |->
                  (7 * mix[f] + 3 * convolved(mix, impulse[ch], f, 1)) \div 10],
               1, length)
  IN [numberOfChannels |-> 2, sampleRate |-> RenderRate, length |-> length,
      data |-> <<channel(1), channel(2)>>]

\* a trim that keeps nothing after the last sound
noSilenceSamples(sampleRate) == 0

\* minSilenceSamples = Math.floor(minSilenceSeconds * sampleRate)
minSilenceSamples(sampleRate) == sampleRate \div 2

\* trimSilence(buffer): indices count from 0 as in the program
trimSilence(buffer) ==
  LET loud(ch) == {i \in 0..(buffer.length - 1) :
                     buffer.data[ch][i + 1] > Threshold
                     \/ buffer.data[ch][i + 1] < 0 - Threshold}
      lasts == {0} \cup UNION {loud(ch) : ch \in 1..buffer.numberOfChannels}
      lastSoundSample == CHOOSE x \in lasts : \A y \in lasts : y <= x
      endSample == Min(lastSoundSample + minSilenceSamples(buffer.sampleRate),
                       buffer.length)
  IN IF endSample >= buffer.length - buffer.sampleRate THEN buffer
     ELSE [buffer EXCEPT !.length = endSample,
                         !.data = [ch \in 1..buffer.numberOfChannels |->
                                     SubSeq(buffer.data[ch], 1, endSample)]]

\* view.setUint32(offset, n, true) and view.setUint16(offset, n, true)
littleEndian32(n) ==
  <<n % 256, (n \div 256) % 256, (n \div 65536) % 256, (n \div 16777216) % 256>>
littleEndian16(n) == <<n % 256, (n \div 256) % 256>>

\* a header that declares the size of the whole file
wholeFile(totalSize) == totalSize

\* the RIFF chunk size: totalSize - 8
riffSize(totalSize) == totalSize - 8

\* a conversion that scales both signs by 0x8000
wrappingSample(x) ==
  LET sample == Max(0 - Unit, Min(Unit, x))
      scaled == IF sample < 0 THEN 0 - (((0 - sample) * 32768) \div Unit)
                ELSE (sample * 32768) \div Unit
  IN littleEndian16((scaled + 65536) % 65536)

\* the sample as written: clamped, scaled, cut to an integer, 16 bits
intSample(x) ==
  LET sample == Max(0 - Unit, Min(Unit, x))
      scaled == IF sample < 0 THEN 0 - (((0 - sample) * 32768) \div Unit)
                ELSE (sample * 32767) \div Unit
  IN littleEndian16((scaled + 65536) % 65536)

\* the loop over frames and channels: byte k of the samples written
interleaved(buffer) ==
  LET C == buffer.numberOfChannels
  IN SubSeq([k \in 1..(buffer.length * C * 2) |->
               LET s == (k - 1) \div 2
               IN intSample(buffer.data[(s % C) + 1][(s \div C) + 1])[((k - 1) % 2) + 1]],
            1, buffer.length * C * 2)

Chars(s) == [i \in 1..Len(s) |->
               CASE s[i] = "R" -> 82 [] s[i] = "I" -> 73 [] s[i] = "F" -> 70
                 [] s[i] = "W" -> 87 [] s[i] = "A" -> 65 [] s[i] = "V" -> 86
                 [] s[i] = "E" -> 69 [] s[i] = "f" -> 102 [] s[i] = "m" -> 109
                 [] s[i] = "t" -> 116 [] s[i] = " " -> 32 [] s[i] = "d" -> 100
                 [] s[i] = "a" -> 97]

\* audioBufferToWav(buffer): the bytes of the Blob
audioBufferToWav(buffer) ==
  LET numChannels == buffer.numberOfChannels
      bitsPerSample == 16
      bytesPerSample == bitsPerSample \div 8
      blockAlign == numChannels * bytesPerSample
      byteRate == buffer.sampleRate * blockAlign
      dataSize == buffer.length * blockAlign
      headerSize == 44
      totalSize == headerSize + dataSize
  IN Chars(<<"R", "I", "F", "F">>) \o littleEndian32(riffSize(totalSize))
     \o Chars(<<"W", "A", "V", "E">>)
     \o Chars(<<"f", "m", "t", " ">>) \o littleEndian32(16)
     \o littleEndian16(1) \o littleEndian16(numChannels)
     \o littleEndian32(buffer.sampleRate) \o littleEndian32(byteRate)
     \o littleEndian16(blockAlign) \o littleEndian16(bitsPerSample)
     \o Chars(<<"d", "a", "t", "a">>) \o littleEndian32(dataSize)
     \o interleaved(buffer)

(***************************************************************************)
(* stop()                                                                  *)
(***************************************************************************)
Handles(w) ==
  ({ w.masterGain, w.delayNode, w.delayFeedbackGain, w.delayDryGain,
     w.delayWetGain, w.delayInputGain, w.reverbNode }
   \cup Range(w.delayFilters)) \ {Null}

\* the nodes the engine keeps a reference to
Tracked(w) == Handles(w) \cup VoiceNodes(w.voices)

\* The release of at most one node throws in a stop(): of none (Null), of a
\* node of the oldest voice, or of the master gain.
Fallible(w) ==
  {Null} \cup (IF w.voices = <<>> THEN {}
              ELSE {Head(w.voices).oscillator, Head(w.voices).gainNode})
         \cup ({w.masterGain} \ {Null})

\* try { n.disconnect(); } catch (e) {}   where the release of bad throws
release(E, n, bad) == IF n = bad THEN E ELSE disconnect(E, n)

\* one voice of the loop of stop(): a single try block around
\* oscillator.stop(), oscillator.disconnect() and gainNode.disconnect()
stopVoice(E, v, bad) ==
  IF v.oscillator = bad THEN E
  ELSE release(disconnect(E, v.oscillator), v.gainNode, bad)

RECURSIVE stopVoices(_, _, _)
stopVoices(E, vs, bad) ==
  IF vs = <<>> THEN E
  ELSE stopVoices(stopVoice(E, Head(vs), bad), Tail(vs), bad)

RECURSIVE releaseAll(_, _, _)
releaseAll(E, ns, bad) ==
  IF ns = <<>> THEN E
  ELSE releaseAll(release(E, Head(ns), bad), Tail(ns), bad)

\* audioContext.suspend(): a request already waiting last in the queue
\* makes a second one redundant
requestSuspend(q) ==
  IF q # <<>> /\ q[Len(q)] = "suspend" THEN q ELSE Append(q, "suspend")

clearScheduler(w) ==
  [w EXCEPT !.timers = @ \ {w.schedulerId}, !.schedulerId = 0]

\* a stop() that forgets to clear its handles
keepHandles(w) == w

clearHandles(w) ==
  [w EXCEPT !.masterGain = Null, !.delayNode = Null,
            !.delayFeedbackGain = Null, !.delayDryGain = Null,
            !.delayWetGain = Null, !.delayInputGain = Null,
            !.delayFilters = <<>>, !.reverbNode = Null,
            !.audioParams = NoParams]

\* a stop() that notifies nobody
stopUnnoticed(w, bad) ==
  LET w1 == clearScheduler([w EXCEPT !.isPlaying = FALSE])
      E1 == stopVoices(w.edges, w.voices, bad)
      E2 == releaseAll(E1, << w.masterGain, w.delayNode, w.delayFeedbackGain,
                              w.delayDryGain, w.delayWetGain, w.delayInputGain >>
                           \o w.delayFilters \o << w.reverbNode >>, bad)
      w2 == clearHandles([w1 EXCEPT !.voices = <<>>, !.edges = E2])
  IN [w2 EXCEPT
        !.backendQ = IF w.audioContext = "running" THEN requestSuspend(@) ELSE @,
        !.released = [nodes |-> Tracked(w), threw |-> bad, timer |-> w.schedulerId],
        !.stopInStart = @ \/ ("resume" \in Range(w.backendQ)),
        !.lastOnset = 0,
        !.lastOp = "stop"]

\* stop(), where bad is the node whose release throws (Null: none does)
stop(w, bad) ==
  LET w1 == clearScheduler([w EXCEPT !.isPlaying = FALSE])
      E1 == stopVoices(w.edges, w.voices, bad)
      E2 == releaseAll(E1, << w.masterGain, w.delayNode, w.delayFeedbackGain,
                              w.delayDryGain, w.delayWetGain, w.delayInputGain >>
                           \o w.delayFilters \o << w.reverbNode >>, bad)
      w2 == clearHandles([w1 EXCEPT !.voices = <<>>, !.edges = E2])
  IN [w2 EXCEPT
        !.backendQ = IF w.audioContext = "running" THEN requestSuspend(@) ELSE @,
        !.playState = "false",
        !.released = [nodes |-> Tracked(w), threw |-> bad, timer |-> w.schedulerId],
        !.stopInStart = @ \/ ("resume" \in Range(w.backendQ)),
        !.lastOnset = 0,
        !.lastOp = "stop"]

(***************************************************************************)
(* start()                                                                 *)
(***************************************************************************)
\* musicalDurationToSeconds(duration, this.bpm), in ms
durationMs(duration, b) ==
  LET s == musicalDurationToSeconds(duration, b) IN (s.n * 1000) \div s.d

\* Math.min
Smaller(a, b) == IF a <= b THEN a ELSE b

createDelayEffect(w, g) ==
  IF w.audioContext = "none" \/ w.masterGain = Null THEN w
  ELSE LET dn == Node("delayNode", g, 0)
           fb == Node("delayFeedbackGain", g, 0)
           dry == Node("delayDryGain", g, 0)
           wet == Node("delayWetGain", g, 0)
           inp == Node("delayInputGain", g, 0)
           p == w.synthParams.delay
           numFilters == p.filterOrder \div 6
           fs == [i \in 1..numFilters |-> Node("delayFilter", g, i)]
           chain == IF numFilters > 0
                    THEN { <<dn, fs[1]>>, <<fs[numFilters], fb>>, <<fs[numFilters], wet>> }
                         \cup { <<fs[i], fs[i + 1]>> : i \in 1..(numFilters - 1) }
                    ELSE { <<dn, fb>>, <<dn, wet>> }
       IN [w EXCEPT !.delayNode = dn, !.delayFeedbackGain = fb,
                    !.delayDryGain = dry, !.delayWetGain = wet,
                    !.delayInputGain = inp, !.delayFilters = fs,
                    !.audioParams =
                       [delayTime |-> durationMs(p.duration, w.bpm),
                        feedback |-> IF p.enabled THEN Smaller(p.feedback, 95) ELSE 0,
                        dry |-> 100 - (IF p.enabled THEN p.mix ELSE 0),
                        wet |-> IF p.enabled THEN p.mix ELSE 0,
                        filters |-> [i \in 1..numFilters |->
                                       [type |-> p.filterType,
                                        frequency |-> p.filterFrequency,
                                        Q |-> p.filterResonance]]],
                    !.edges = @ \cup { <<w.masterGain, dry>>, <<w.masterGain, inp>>,
                                       <<inp, dn>>, <<fb, inp>> } \cup chain]

(***************************************************************************)
(* setSynthParams()                                                        *)
(***************************************************************************)
\* { ...a, ...b }
Spread(a, b) ==
  [k \in DOMAIN a \cup DOMAIN b |-> IF k \in DOMAIN b THEN b[k] ELSE a[k]]

\* a rebuild that leaves the cascade as it is
keepFilterChain(w, type, frequency, resonance, numFilters) == w

recreateDelayFilterChain(w, type, frequency, resonance, numFilters) ==
  IF \/ w.audioContext = "none" \/ w.delayNode = Null
     \/ w.delayFeedbackGain = Null \/ w.delayWetGain = Null
  THEN w
  ELSE LET g == FreshId(w)
           fs == [i \in 1..numFilters |-> Node("delayFilter", g, i)]
           E1 == {c \in w.edges : c[1] \notin Range(w.delayFilters)}
           E2 == disconnect(E1, w.delayNode)
           chain == IF numFilters > 0
                    THEN { <<w.delayNode, fs[1]>>,
                           <<fs[numFilters], w.delayFeedbackGain>>,
                           <<fs[numFilters], w.delayWetGain>> }
                         \cup { <<fs[i], fs[i + 1]>> : i \in 1..(numFilters - 1) }
                    ELSE { <<w.delayNode, w.delayFeedbackGain>>,
                           <<w.delayNode, w.delayWetGain>> }
       IN [w EXCEPT !.delayFilters = fs, !.edges = E2 \cup chain,
                    !.audioParams.filters =
                       [i \in 1..numFilters |->
                          [type |-> type, frequency |-> frequency, Q |-> resonance]]]

updateDelayFilters(w, type, frequency, resonance, order) ==
  IF w.audioContext = "none" THEN w
  ELSE IF Len(w.delayFilters) # order \div 6
  THEN recreateDelayFilterChain(w, type, frequency, resonance, order \div 6)
  ELSE [w EXCEPT !.audioParams.filters =
                    [i \in 1..Len(w.delayFilters) |->
                       [type |-> type, frequency |-> frequency, Q |-> resonance]]]

\* an update that never reaches the nodes
skipDelayParams(w) == w

updateDelayParams(w) ==
  IF w.audioContext = "none" THEN w
  ELSE LET p == w.synthParams.delay
           w1 == IF w.delayNode # Null
                 THEN [w EXCEPT !.audioParams.delayTime = durationMs(p.duration, w.bpm)]
                 ELSE w
           w2 == IF w.delayFeedbackGain # Null
                 THEN [w1 EXCEPT !.audioParams.feedback =
                                    IF p.enabled THEN Smaller(p.feedback, 95) ELSE 0]
                 ELSE w1
           w3 == IF w.delayDryGain # Null /\ w.delayWetGain # Null
                 THEN [w2 EXCEPT !.audioParams.dry = 100 - (IF p.enabled THEN p.mix ELSE 0),
                                 !.audioParams.wet = IF p.enabled THEN p.mix ELSE 0]
                 ELSE w2
       IN updateDelayFilters(w3, p.filterType, p.filterFrequency, p.filterResonance,
                             p.filterOrder)

\* a setSynthParams that applies the envelope and nothing else
setEnvelopeOnly(w, params) ==
  IF "envelope" \in DOMAIN params
  THEN [w EXCEPT !.synthParams.envelope = Spread(@, params.envelope)]
  ELSE w

setSynthParams(w, params) ==
  LET w1 == IF "envelope" \in DOMAIN params
            THEN [w EXCEPT !.synthParams.envelope = Spread(@, params.envelope)]
            ELSE w
      w2 == IF "vibrato" \in DOMAIN params
            THEN [w1 EXCEPT !.synthParams.vibrato = Spread(@, params.vibrato)]
            ELSE w1
      w3 == IF "tremolo" \in DOMAIN params
            THEN [w2 EXCEPT !.synthParams.tremolo = Spread(@, params.tremolo)]
            ELSE w2
      w4 == IF "delay" \in DOMAIN params
            THEN updateDelayParams([w3 EXCEPT !.synthParams.delay =
                                                 Spread(@, params.delay)])
            ELSE w3
  IN IF "maxNoteDuration" \in DOMAIN params
     THEN [w4 EXCEPT !.synthParams.maxNoteDuration = params.maxNoteDuration]
     ELSE w4

\* a wiring that reaches the destination through the reverb only
wireThroughReverb(w, g, reverbOk) ==
  LET rv == IF reverbOk THEN Node("reverbNode", g, 0) ELSE Null
      mixNode == Node("mixNode", g, 0)
  IN [w EXCEPT !.reverbNode = rv,
               !.edges = IF rv # Null
                         THEN @ \cup { <<w.delayDryGain, mixNode>>, <<mixNode, rv>>,
                                       <<rv, destination>> }
                         ELSE @ \cup { <<w.delayDryGain, mixNode>> }]

\* the output wiring of start(); reverbOk: createSimpleReverb() succeeded
wireOutput(w, g, reverbOk) ==
  LET rv == IF reverbOk THEN Node("reverbNode", g, 0) ELSE Null
      hasMix == w.delayDryGain # Null /\ w.delayWetGain # Null
      mixNode == Node("mixNode", g, 0)
      signalSource == IF hasMix THEN mixNode ELSE w.masterGain
      dryGain == Node("dryGain", g, 0)
      wetGain == Node("wetGain", g, 0)
      E1 == IF hasMix
            THEN w.edges \cup { <<w.delayDryGain, mixNode>>, <<w.delayWetGain, mixNode>> }
            ELSE w.edges
      E2 == IF rv # Null
            THEN E1 \cup { <<signalSource, dryGain>>, <<signalSource, rv>>,
                           <<rv, wetGain>>, <<dryGain, destination>>,
                           <<wetGain, destination>> }
            ELSE E1 \cup { <<signalSource, destination>> }
  IN [w EXCEPT !.reverbNode = rv, !.edges = E2]

\* a catch block that rethrows without stopping the engine
rethrowOnly(w, error, bad) ==
  [w EXCEPT !.startResult = error, !.lastOp = "startFailed"]

\* the catch block of start(): stop(), then rethrow the error caught
startCatch(w, error, bad) ==
  [stop(w, bad) EXCEPT !.startResult = error, !.lastOp = "startFailed"]

\* start() from the creation of the master gain on; d0 is the first draw of
\* generateExponentialDelay()
startBody(w, reverbOk, d0, delays) ==
  LET g == FreshId(w)
      w1 == [w EXCEPT !.masterGain = Node("masterGain", g, 0)]
      w2 == wireOutput(createDelayEffect(w1, g), g, reverbOk)
      w3 == refreshPitchClasses(w2)
      startTime == w.clock
      w4 == [w3 EXCEPT !.nextNoteTime = startTime + FirstNoteOffset,
                       !.nextGraphHopTime = startTime + barSeconds(w.bpm) * BARS_PER_CHANGE]
      w5 == scheduleNextNote(w4, startTime, d0)
      w6 == [w5 EXCEPT !.isPlaying = TRUE, !.playState = "true", !.lastOnset = 0,
                       !.seed = [now |-> startTime, delta |-> d0,
                                 nextNoteTime |-> w5.nextNoteTime,
                                 nextGraphHopTime |-> w5.nextGraphHopTime]]
  IN IF refreshThrows(w2)
     THEN { [startCatch(w2, "TypeError", Null) EXCEPT !.lastOp = "startThrew"] }
     ELSE { [x EXCEPT !.startResult = "resolved", !.lastOp = "start"]
            : x \in scheduler(w6, delays) }

(***************************************************************************)
(* The state after construction, and the operations                        *)
(***************************************************************************)
\* no playback is followed
NotFollowed == [started |-> FALSE, d0 |-> 0, advances |-> 0, trace |-> <<>>]

\* no direct call has returned yet
NoCall == [fn |-> "none", args |-> <<>>, val |-> <<>>]

\* new MusicEngine() over one of the datasets
Constructed(datasets) ==
  /\ audioContext = "none" /\ backendQ = <<>> /\ clock = 0
  /\ bpm \in BpmChoices
  /\ isPlaying = FALSE /\ schedulerId = 0 /\ timers = {}
  /\ masterGain = Null /\ reverbNode = Null /\ delayNode = Null
  /\ delayFeedbackGain = Null /\ delayDryGain = Null /\ delayWetGain = Null
  /\ delayInputGain = Null /\ delayFilters = <<>>
  /\ voices = <<>> /\ edges = {}
  /\ pcsGraph \in datasets
  /\ currentIndex \in (IF Len(pcsGraph.nodes) = 0 THEN {1} ELSE 1..Len(pcsGraph.nodes))
  /\ activePitchClasses = {}
  /\ nextNoteTime = 0 /\ nextGraphHopTime = 0
  /\ synthParams = DEFAULT_SYNTH_PARAMS
  /\ ticks = 0 /\ playState = "none" /\ startResult = "none"
  /\ backendError = "none"
  /\ seed = NoSeed
  /\ tick = IdleTick
  /\ released = NoRelease
  /\ stopInStart = FALSE
  /\ lastOnset = 0 /\ lived = NotFollowed
  /\ quantized = [done |-> FALSE, time |-> 0, bpm |-> 0, result |-> 0]
  /\ returned = NoCall /\ audioParams = NoParams
  /\ lastOp = "init"

Init == Constructed({Dataset})

\* start() is called: every call clears the note that a stop() came last
Called == [Enter(World) EXCEPT !.stopInStart = FALSE]

\* callbacks the program has handed out and that have not run yet
PendingCallbacks ==
  Cardinality(timers) + Cardinality({i \in 1..Len(backendQ) : backendQ[i] = "resume"})

\* start() while playing returns at once
StartWhilePlaying ==
  /\ isPlaying
  /\ \E w \in {[Called EXCEPT !.startResult = "resolved", !.lastOp = "startNoop"]} :
       Becomes(w)

\* new AudioContext() throws
StartCreateFails ==
  /\ ~isPlaying /\ audioContext = "none"
  /\ \E error \in Errors :
       \E w \in {startCatch([Called EXCEPT !.backendError = error], error, Null)} :
         Becomes(w)

\* the context is running (found so, or created so): start() runs to its end
StartRuns(delays, reverbs, limit) ==
  /\ ~isPlaying /\ audioContext \in {"none", "running"}
  /\ PendingCallbacks < limit
  /\ \E reverbOk \in reverbs, d0 \in delays :
       \E w \in startBody([Called EXCEPT !.audioContext = "running"],
                          reverbOk, d0, delays) :
         Becomes(w)

\* the context is suspended (found so, or created so): start() awaits resume()
StartAwaits(limit) ==
  /\ ~isPlaying /\ audioContext \in {"none", "suspended"}
  /\ PendingCallbacks < limit
  /\ \E w \in {[Called EXCEPT !.audioContext = "suspended",
                                 !.backendQ = Append(@, "resume"),
                                 !.lastOp = "startAwaits"]} :
       Becomes(w)

\* resume() resolves and the start() that awaited it goes on
ResumeResolves(delays, reverbs) ==
  /\ backendQ # <<>> /\ Head(backendQ) = "resume"
  /\ \E reverbOk \in reverbs, d0 \in delays :
       \E w \in startBody([Enter(World) EXCEPT !.backendQ = Tail(@),
                                                !.audioContext = "running"],
                          reverbOk, d0, delays) :
         Becomes(w)

\* resume() rejects and the start() that awaited it runs its catch block
ResumeRejects ==
  /\ backendQ # <<>> /\ Head(backendQ) = "resume"
  /\ \E error \in Errors, bad \in Fallible(World) :
       \E w \in {startCatch([Enter(World) EXCEPT !.backendQ = Tail(@),
                                                   !.backendError = error],
                             error, bad)} :
         Becomes(w)

\* the backend completes a suspend() request
SuspendCompletes ==
  /\ backendQ # <<>> /\ Head(backendQ) = "suspend"
  /\ \E w \in {[Enter(World) EXCEPT !.backendQ = Tail(@),
                                       !.audioContext = "suspended",
                                       !.lastOp = "suspended"]} :
       Becomes(w)

\* stop(); mayThrow: a release may throw in it
Stop(mayThrow) ==
  \E bad \in (IF mayThrow THEN Fallible(World) ELSE {Null}) : \E w \in {stop(Enter(World), bad)} : Becomes(w)

\* a pending setTimeout callback runs scheduler()
TimerFires(delays) ==
  /\ isPlaying => ticks < MaxTicks
  /\ \E id \in timers :
       \E w \in scheduler([Enter(World) EXCEPT !.timers = @ \ {id},
                                               !.ticks = IF isPlaying THEN @ + 1 ELSE @],
                          delays) :
         Becomes(w)

\* the playback clock advances while the context runs
ClockAdvances(steps) ==
  /\ audioContext = "running"
  /\ \E d \in steps :
       /\ clock + d <= MaxClock
       /\ \E w \in {[Enter(World) EXCEPT !.clock = @ + d, !.lastOp = "clock"]} :
            Becomes(w)

\* The life cycle under every failure of the backend.
Next ==
  \/ StartWhilePlaying
  \/ StartCreateFails
  \/ StartRuns(LifeDelays, BOOLEAN, MaxPending)
  \/ StartAwaits(MaxPending)
  \/ ResumeResolves(LifeDelays, BOOLEAN)
  \/ ResumeRejects
  \/ SuspendCompletes
  \/ Stop(TRUE)
  \/ TimerFires(LifeDelays)
  \/ ClockAdvances(LifeSteps)

Spec == Init /\ [][Next]_vars

\* The scheduler under every timing of its ticks, with a backend that works.
NextSched ==
  \/ StartWhilePlaying
  \/ StartRuns(SchedDelays, {TRUE}, MaxStarts)
  \/ StartAwaits(MaxStarts)
  \/ ResumeResolves(SchedDelays, {TRUE})
  \/ SuspendCompletes
  \/ Stop(FALSE)
  \/ TimerFires(SchedDelays)
  \/ ClockAdvances(SchedSteps)

SpecSched == Init /\ [][NextSched]_vars

\* setBpm(b) on the stopped engine
SetBpm ==
  /\ ~isPlaying
  /\ \E b \in QuantBpms : bpm' = b
  /\ UNCHANGED << audioContext, backendQ, clock, isPlaying, schedulerId, timers,
                  masterGain, reverbNode, delayNode, delayFeedbackGain,
                  delayDryGain, delayWetGain, delayInputGain, delayFilters,
                  voices, edges, pcsGraph, currentIndex, activePitchClasses,
                  nextNoteTime,
                  nextGraphHopTime, synthParams, ticks, playState, startResult,
                  backendError, seed, tick, released, quantized, stopInStart,
                  lastOnset, lived, returned, audioParams, lastOp >>

\* quantizeToSixteenth(t) for the time whose literal is i / 100
Quantize ==
  /\ \E i \in 0..MaxTime :
       LET t == Round(i, 100)
       IN quantized' = [done |-> TRUE, time |-> t, bpm |-> bpm,
                        result |-> quantizeToSixteenthFloat(t, bpm)]
  /\ UNCHANGED << audioContext, backendQ, clock, bpm, isPlaying, schedulerId,
                  timers, masterGain, reverbNode, delayNode, delayFeedbackGain,
                  delayDryGain, delayWetGain, delayInputGain, delayFilters,
                  voices, edges, pcsGraph, currentIndex, activePitchClasses,
                  nextNoteTime,
                  nextGraphHopTime, synthParams, ticks, playState, startResult,
                  backendError, seed, tick, released, stopInStart, lastOnset, lived,
                  returned, audioParams, lastOp >>

\* quantizeToSixteenth over input times and tempi, the engine at rest.
NextQuantize == SetBpm \/ Quantize

SpecQuantize == Init /\ [][NextQuantize]_vars

\* the neighbour lists a node of an n-node graph may carry
AdjLists(n) ==
  {<<>>} \cup { <<a>> : a \in 1..n }
         \cup { <<a, a + 1>> : a \in 1..(n - 1) }

\* every graph of 1..MaxNodes nodes whose neighbour lists stay in range
WalkDatasets ==
  UNION { { [nodes |-> [i \in 1..n |-> {i - 1}], adjacency |-> a]
            : a \in [1..n -> AdjLists(n)] }
          : n \in 1..MaxNodes }

\* pcsGraph.advance()
Advance ==
  \E i \in advance(pcsGraph, currentIndex) :
    Becomes([World EXCEPT !.currentIndex = i,
                          !.returned = [fn |-> "advance", args |-> <<currentIndex>>,
                                        val |-> <<i>>],
                          !.lastOp = "advance"])

\* pcsGraph.current()
Current ==
  \E v \in {current(World)} :
    Becomes([World EXCEPT !.returned = [fn |-> "current", args |-> <<currentIndex>>,
                                        val |-> <<v>>],
                          !.lastOp = "current"])

\* Walks of a relation graph, over every small dataset.
NextGraph == Advance \/ Current

SpecGraph == Constructed(WalkDatasets) /\ [][NextGraph]_vars

\* setBpm(b), from the control surface
SetTempo(bpms) ==
  \E b \in bpms :
    \E w \in {[setBpm(Enter(World), b) EXCEPT !.lastOp = "setBpm"]} : Becomes(w)

\* setSynthParams(params), from the control surface
SetSynthParams(updates) ==
  \E params \in updates :
    \E w \in {[setSynthParams(Enter(World), params)
                 EXCEPT !.returned = [fn |-> "setSynthParams", args |-> <<params>>,
                                      val |-> <<synthParams>>],
                        !.lastOp = "setSynthParams"]} :
      Becomes(w)

\* Playback started, ticking, stopped and started again, while the control
\* surface sets the tempo and the delay.
NextSetters ==
  \/ StartRuns(SchedDelays, {TRUE}, MaxStarts)
  \/ Stop(FALSE)
  \/ TimerFires(SchedDelays)
  \/ ClockAdvances(SetterSteps)
  \/ SetTempo(SetterTempi)
  \/ SetSynthParams(SetterUpdates)

SpecSetters == Init /\ [][NextSetters]_vars

\* Notes triggered after the sliders of the envelope were moved.
NextEnvelope ==
  \/ StartRuns(LifeDelays, {TRUE}, MaxStarts)
  \/ SetSynthParams(SliderUpdates)
  \/ TimerFires(LifeDelays)
  \/ ClockAdvances(LifeSteps)

SpecEnvelope == Init /\ [][NextEnvelope]_vars

\* Parameter updates before and during playback.
NextParams ==
  \/ StartRuns(LifeDelays, {TRUE}, MaxStarts)
  \/ SetSynthParams(ParamUpdates)
  \/ TimerFires(LifeDelays)
  \/ ClockAdvances(LifeSteps)

SpecParams == Init /\ [][NextParams]_vars

\* triggerNote(frequency, when, duration) as the note loop calls it on the
\* running engine, when being the earliest time the loop passes
TriggerNote(durations, limit) ==
  /\ isPlaying /\ Len(voices) < limit
  /\ \E d \in durations :
       \E w \in {[triggerNote(Enter(World), clock + MinLead, d)
                    EXCEPT !.lastOp = "triggerNote"]} :
         Becomes(w)

\* The voice pool filled to its capacity and beyond.
NextPool ==
  \/ StartRuns(LifeDelays, {TRUE}, MaxStarts)
  \/ TriggerNote(PoolDurations, MAX_VOICES + 1)
  \/ ClockAdvances(PoolSteps)

SpecPool == Init /\ [][NextPool]_vars

\* A few voices followed through their end and the grace period after it.
NextCleanup ==
  \/ StartRuns(LifeDelays, {TRUE}, MaxStarts)
  \/ TriggerNote(PoolDurations, MaxPool)
  \/ ClockAdvances(CleanupSteps)

SpecCleanup == Init /\ [][NextCleanup]_vars

\* generateMusicData(h), alone or as the first step of exportToMidi(h) and
\* exportToWav(h), which go on to encode and render the notes returned
\* without touching the engine again; one export per behaviour, at any
\* point of the life cycle
Generate(delays) ==
  /\ returned = NoCall
  /\ \E entry \in {"generateMusicData", "exportToMidi", "exportToWav"},
        h \in 0..MaxHyperbars :
       \E out \in generateMusicData(World, h, delays) :
         Becomes([out.w EXCEPT !.returned =
                                 [fn |-> entry, args |-> <<h>>,
                                  threw |-> out.threw,
                                  val |-> IF out.threw THEN <<>> ELSE <<out.notes>>],
                               !.lastOp = "generate"])

\* generateMusicData(h) followed note by note: the notes returned, and for
\* each the advances the local graph had made when its pitch class was drawn
GenerateMusicData(delays) ==
  /\ returned = NoCall
  /\ \E h \in 0..GenHyperbars :
       \E out \in generateMusicData(World, h, delays) :
         Becomes([out.w EXCEPT !.returned =
                                 [fn |-> "generateMusicData", args |-> <<h>>,
                                  threw |-> out.threw, bpm |-> out.w.bpm,
                                  val |-> IF out.threw THEN <<>> ELSE <<out.notes>>,
                                  trace |-> out.trace, advances |-> out.advances],
                               !.lastOp = "generateMusicData"])

\* Generations of up to GenHyperbars hyperbars at the tempi of the exports.
NextGenerate ==
  \/ returned = NoCall /\ SetTempo(ExportTempi)
  \/ GenerateMusicData(GenDelays)

SpecGenerate == Init /\ [][NextGenerate]_vars

\* trimSilence(buffer) for a buffer of any shape and content
TrimSilence ==
  /\ returned = NoCall
  /\ \E channels \in 1..2, length \in 0..TrimSamples, rate \in TrimRates :
       /\ channels * length <= TrimSamples
       /\ \E data \in [1..channels -> [1..length -> TrimChoices]] :
            LET buffer == [numberOfChannels |-> channels, sampleRate |-> rate,
                           length |-> length, data |-> data]
            IN Becomes([World EXCEPT !.returned =
                                       [fn |-> "trimSilence", args |-> <<buffer>>,
                                        val |-> <<trimSilence(buffer)>>],
                                     !.lastOp = "trimSilence"])

\* Buffers of every content, trimmed.
NextTrim == TrimSilence

SpecTrim == Init /\ [][NextTrim]_vars

\* Playback and offline generation side by side, over odd datasets too.
\* the timer fires while the context runs: the clock has moved on by the
\* period or more (a throttled page) when scheduler() reads it
TickerRuns(delays, steps) ==
  /\ isPlaying /\ audioContext = "running"
  /\ \E id \in timers, d \in steps :
       /\ d >= TickPeriod /\ clock + d <= VoiceHorizon
       /\ \E w \in scheduler([Enter(World) EXCEPT !.clock = @ + d,
                                                  !.timers = @ \ {id}],
                             delays) :
            Becomes(w)

\* Playback that goes on: setTimeout always fires and the running context's
\* clock advances, so the tick is weakly fair.
NextVoices ==
  \/ clock = 0 /\ StartRuns(VoiceDelays, {TRUE}, MaxStarts)
  \/ Stop(FALSE)
  \/ TickerRuns(VoiceDelays, VoiceSteps)

\* the clock of a running engine reaches the next tick: within NextVoices the
\* clock moves in the steps of TickerRuns only, and scheduler() always has an
\* outcome, so this step is possible exactly when TickerRuns is
TimerDue(steps) ==
  /\ isPlaying /\ audioContext = "running" /\ timers # {}
  /\ \E d \in steps : d >= TickPeriod /\ clock + d <= VoiceHorizon /\ clock' = clock + d

SpecVoices == Init /\ [][NextVoices]_vars /\ WF_clock(TimerDue(VoiceSteps))

NextOffline ==
  \/ StartWhilePlaying
  \/ StartRuns(LifeDelays, {TRUE}, MaxStarts)
  \/ StartAwaits(MaxStarts)
  \/ ResumeResolves(LifeDelays, {TRUE})
  \/ SuspendCompletes
  \/ Stop(FALSE)
  \/ TimerFires(LifeDelays)
  \/ ClockAdvances(LifeSteps)
  \/ Generate(LifeDelays)

SpecOffline == Constructed({Dataset, NoNodes, Sparse}) /\ [][NextOffline]_vars

\* musicalDurationToSeconds(duration, b) of musicEngine.ts; the function is
\* pure, so one call per behaviour covers every call
Convert ==
  /\ returned = NoCall
  /\ \E duration \in MUSICAL_DURATIONS, b \in 1..MaxBpm :
    Becomes([World EXCEPT !.returned =
                            [fn |-> "musicalDurationToSeconds",
                             args |-> <<duration, b>>,
                             val |-> <<musicalDurationToSeconds(duration, b)>>],
                          !.lastOp = "convert"])

\* musicalDurationToSeconds(duration, b) of App.vue
ConvertApp ==
  /\ returned = NoCall
  /\ \E duration \in MUSICAL_DURATIONS_App, b \in 1..MaxBpm :
    Becomes([World EXCEPT !.returned =
                            [fn |-> "musicalDurationToSecondsApp",
                             args |-> <<duration, b>>,
                             val |-> <<musicalDurationToSecondsApp(duration, b)>>],
                          !.lastOp = "convert"])

\* Both versions of the conversion over every duration name and tempo.
NextDuration == Convert \/ ConvertApp

SpecDuration == Init /\ [][NextDuration]_vars

\* exportToMidi(h): generateMusicData(h), then the notes encoded.  Two
\* exports are followed, both by the same build of the program.
ExportToMidi(delays) ==
  /\ returned = NoCall \/ (returned.fn = "exportToMidi" /\ returned.nth = 1)
  /\ \E h \in 0..MaxHyperbars, build \in SortBuilds :
       /\ returned # NoCall => returned.build = build
       /\ \E out \in generateMusicData(World, h, delays) :
            Becomes([out.w EXCEPT
                       !.returned =
                         [fn |-> "exportToMidi", args |-> <<h>>,
                          nth |-> IF returned = NoCall THEN 1 ELSE 2,
                          build |-> build, threw |-> out.threw,
                          notes |-> out.notes, bpm |-> out.w.bpm,
                          params |-> out.w.synthParams,
                          val |-> IF out.threw THEN <<>>
                                  ELSE <<encodeMidi(out.notes, out.w.bpm, build)>>],
                       !.lastOp = "exportToMidi"])

\* exportToWav(h): generateMusicData(h), then the notes rendered, trimmed
\* and written; pattern: what Math.random() yields for the impulse
ExportToWav(delays) ==
  /\ returned = NoCall \/ (returned.fn = "exportToWav" /\ returned.nth = 1)
  /\ \E h \in 0..MaxHyperbars, pattern \in ImpulsePatterns :
       \E out \in generateMusicData(World, h, delays) :
         LET rendered == startRendering(out.notes, out.w.synthParams, out.w.bpm,
                                        h, pattern)
         IN Becomes([out.w EXCEPT
                       !.returned =
                         [fn |-> "exportToWav", args |-> <<h>>,
                          nth |-> IF returned = NoCall THEN 1 ELSE 2,
                          threw |-> out.threw,
                          notes |-> out.notes, bpm |-> out.w.bpm,
                          params |-> out.w.synthParams,
                          rendered |-> IF out.threw THEN <<>> ELSE <<rendered>>,
                          val |-> IF out.threw THEN <<>>
                                  ELSE <<audioBufferToWav(trimSilence(rendered))>>],
                       !.lastOp = "exportToWav"])

\* setSynthParams({ maxNoteDuration }) of the exporting engine: the longest
\* note as a symbolic duration
setMaxNoteDuration(w, name) == [w EXCEPT !.synthParams.maxNoteName = name]

SetMaxNoteDuration(names) ==
  \E name \in names :
    \E w \in {[setMaxNoteDuration(Enter(World), name) EXCEPT !.lastOp = "setSynthParams"]} :
      Becomes(w)

\* the note drawn in generateMusicData at one onset, over the extremes of its
\* three draws, and the MIDI file exportToMidi writes for it
DrawNote ==
  /\ returned = NoCall
  /\ \E i \in 1..Len(pcsGraph.nodes), x \in NoteDraws \X NoteDraws \X NoteDraws,
        t \in NoteOnsets, build \in SortBuilds :
       LET st == [w |-> World, pcs |-> asSequence(pcsGraph.nodes[i]),
                  nextNoteTime |-> t, notes |-> <<>>, trace |-> <<>>, advances |-> 0]
           drawn == generateNote(st, x).notes
       IN Becomes([World EXCEPT
                     !.returned = [fn |-> "generateNote", args |-> <<i, x, t>>,
                                   build |-> build, threw |-> FALSE,
                                   notes |-> drawn, bpm |-> bpm,
                                   val |-> <<encodeMidi(drawn, bpm, build)>>],
                     !.lastOp = "generateNote"])

\* Exports after the tempo and the longest note were set, and single notes
\* of every draw.
NextNotes ==
  \/ returned = NoCall /\ SetTempo(ExportTempi)
  \/ returned = NoCall /\ SetMaxNoteDuration(MUSICAL_DURATIONS_App)
  \/ returned = NoCall /\ ExportToMidi(ExportDelays)
  \/ DrawNote

SpecNotes == Init /\ [][NextNotes]_vars

\* writeVariableLength(data, value) on an empty data
WriteVariableLength ==
  /\ returned = NoCall
  /\ \E value \in VlqValues :
       Becomes([World EXCEPT !.returned =
                               [fn |-> "writeVariableLength", args |-> <<value>>,
                                val |-> <<writeVariableLength(value)>>],
                             !.lastOp = "writeVariableLength"])

\* audioBufferToWav(buffer) for a buffer of any shape
AudioBufferToWav ==
  /\ returned = NoCall
  /\ \E channels \in 1..2, length \in 0..MaxFrames, rate \in SampleRates :
       \E data \in [1..channels -> [1..length -> SampleChoices]] :
         LET buffer == [numberOfChannels |-> channels, sampleRate |-> rate,
                        length |-> length, data |-> data]
         IN Becomes([World EXCEPT !.returned =
                                    [fn |-> "audioBufferToWav", args |-> <<buffer>>,
                                     val |-> <<audioBufferToWav(buffer)>>],
                                  !.lastOp = "audioBufferToWav"])

\* The exports of the engine at rest, over the tempi, and their encoders.
NextExport ==
  \/ returned = NoCall /\ SetTempo(ExportTempi)
  \/ ExportToMidi(ExportDelays)
  \/ ExportToWav(ExportDelays)
  \/ WriteVariableLength
  \/ AudioBufferToWav

SpecExport == Init /\ [][NextExport]_vars

\* what a run of scheduler() adds to the notes followed: each note with its
\* onset and the advances of the graph made before it
follow(l, w) ==
  LET log == w.tick.log
      hops(i) == Cardinality({j \in 1..i : log[j].ev = "advance"})
      noted == {i \in 1..Len(log) : log[i].ev = "note"}
      nth(k) == CHOOSE i \in noted : Cardinality({j \in noted : j <= i}) = k
  IN [l EXCEPT !.advances = @ + hops(Len(log)),
               !.trace = @ \o [k \in 1..Cardinality(noted) |->
                                 [onset |-> log[nth(k)].at,
                                  advances |-> l.advances + hops(nth(k))]]]

\* start() on a new context whose clock reads 0; firsts: the first draw of
\* generateExponentialDelay(), delays: the later ones
StartAtZero(firsts, delays) ==
  /\ ~isPlaying /\ audioContext = "none" /\ clock = 0
  /\ \E d0 \in firsts :
       \E w \in startBody([Called EXCEPT !.audioContext = "running"], TRUE, d0, delays) :
         Becomes([w EXCEPT !.lived = follow([NotFollowed EXCEPT !.started = TRUE,
                                                                !.d0 = d0], w)])

\* the setTimeout callback runs when its 50 ms are over, never late
TickOnTime(delays) ==
  /\ isPlaying /\ clock + TickPeriod <= MaxClock
  /\ \E id \in timers :
       \E w \in scheduler([Enter(World) EXCEPT !.clock = @ + TickPeriod,
                                               !.timers = @ \ {id},
                                               !.ticks = @ + 1],
                          delays) :
         Becomes([w EXCEPT !.lived = follow(lived, w)])

\* Playback from clock 0 with every tick on time.
NextLive ==
  \/ StartAtZero(FirstDraws, LaterDraws)
  \/ TickOnTime(LaterDraws)

SpecLive == Init /\ [][NextLive]_vars

(***************************************************************************)
(* stop() and the failure paths of start()                         (Spec)  *)
(***************************************************************************)
\* the state components stop() promises to clear
Cleared(w) ==
  /\ ~w.isPlaying /\ w.schedulerId = 0 /\ w.voices = <<>>
  /\ w.masterGain = Null /\ w.delayNode = Null /\ w.delayFeedbackGain = Null
  /\ w.delayDryGain = Null /\ w.delayWetGain = Null /\ w.delayInputGain = Null
  /\ w.delayFilters = <<>> /\ w.reverbNode = Null

Components(w) ==
  << w.isPlaying, w.schedulerId, w.timers, w.voices, w.masterGain, w.delayNode,
     w.delayFeedbackGain, w.delayDryGain, w.delayWetGain, w.delayInputGain,
     w.delayFilters, w.reverbNode >>

\* every timer still pending finds the engine stopped when it fires: it runs
\* no tick and sets no new timer
Inert(w) ==
  \A id \in w.timers :
    \A x \in scheduler([w EXCEPT !.timers = @ \ {id}], LifeDelays) :
      x.lastOp = "tickIdle" /\ x.timers = w.timers \ {id} /\ ~x.tick.ran

C2_StopDuringStartStaysStopped ==
  stopInStart => (~isPlaying /\ Handles(World) = {} /\ schedulerId = 0)

C4_NothingLeftConnected ==
  lastOp \in {"stop", "startFailed"} =>
    \A n \in NodesOf(edges) \ {destination} : ~ConnectedToDestination(edges, n)

\* C5: when the release of one node throws in stop(), every other node the
\* engine tracked has lost its outgoing connections and the handles are
\* cleared.
C5_ThrowingReleaseSkipsNothing ==
  (lastOp = "stop" /\ released.threw # Null) =>
    /\ Cleared(World)
    /\ \A n \in released.nodes \ {released.threw} : \A c \in edges : c[1] # n

(***************************************************************************)
(* The scheduler tick and the seeding of start()               (SpecSched) *)
(***************************************************************************)
IsNote(e) == e.ev = "note"
\* the notes the last run of scheduler() triggered, in order
Notes == SelectSeq(tick.log, IsNote)

\* C6: one run of scheduler() triggers at most 3 notes, each at the later of
\* nextNoteTime and now + 20 ms, and it ends with 3 notes handled or with
\* nextNoteTime beyond now + 200 ms.
C6_TickBoundsItsNotes ==
  tick.ran =>
    /\ Len(Notes) = tick.handled /\ tick.handled <= MaxNotesPerTick
    /\ \A i \in 1..Len(Notes) :
         /\ Notes[i].at >= tick.now + MinLead /\ Notes[i].at >= Notes[i].due
         /\ Notes[i].at \in {Notes[i].due, tick.now + MinLead}
    /\ (tick.handled = MaxNotesPerTick \/ nextNoteTime > tick.now + LookAhead)

\* a late tick that hits the cap: its first note is lifted to now + 20 ms
C6_Witness ==
  /\ tick.ran /\ tick.handled = MaxNotesPerTick
  /\ Notes[1].at > Notes[1].due

\* C7: a run of scheduler() hops iff now >= nextGraphHopTime - 200 ms; the
\* hop is one advance of the graph followed by one chord-changed
\* notification, both ahead of every note of the tick, and it adds
\* 4 x barSeconds to nextGraphHopTime; without a hop nothing of this happens.
C7_HopWhenDue ==
  tick.ran =>
    IF tick.now >= tick.hopAt - LookAhead
    THEN /\ Len(tick.log) >= 2
         /\ tick.log[1].ev = "advance" /\ tick.log[2].ev = "chord"
         /\ \A i \in 3..Len(tick.log) : tick.log[i].ev = "note"
         /\ tick.log[2].at = currentIndex
         /\ activePitchClasses = pcsGraph.nodes[currentIndex]
         /\ nextGraphHopTime = tick.hopAt + 4 * (4 * (60000 \div bpm))
    ELSE /\ \A i \in 1..Len(tick.log) : tick.log[i].ev = "note"
         /\ nextGraphHopTime = tick.hopAt

\* a tick that hops and then triggers a note
C7_Witness ==
  tick.ran /\ tick.now >= tick.hopAt - LookAhead /\ tick.handled > 0

C9_OnsetsOrderedOnGrid ==
  tick.ran =>
    \A i \in 1..Len(Notes) :
      /\ Notes[i].at % ((60000 \div bpm) \div 4) = 0
      /\ Notes[i].at >= (IF i = 1 THEN tick.prev ELSE Notes[i - 1].at)

\* the half of C9 that the program keeps: the onsets never decrease
OnsetsNeverDecrease ==
  tick.ran =>
    \A i \in 1..Len(Notes) :
      Notes[i].at >= (IF i = 1 THEN tick.prev ELSE Notes[i - 1].at)

(***************************************************************************)
(* quantizeToSixteenth                                      (SpecQuantize) *)
(***************************************************************************)
\* C10: quantizeToSixteenth(t) is a non-negative whole multiple of the
\* sixteenth-note duration and is not below t.
C10_QuantizeIsGridTimeNotBelow ==
  quantized.done =>
    /\ quantized.result >= quantized.time
    /\ \E n \in 0..(2^Precision) :
         quantized.result =
           Round(n * sixteenthSecondsFloat(quantized.bpm), 2^FracBits)

(***************************************************************************)
(* The relation graph                                          (SpecGraph) *)
(***************************************************************************)
\* C11: in a graph of N >= 1 nodes whose neighbour lists stay in range,
\* currentIndex is a node of the graph after any number of advance() calls;
\* an advance() from a node with neighbours lands on one of them, and an
\* advance() from a node without neighbours lands on some node of the graph.
C11_AdvanceStaysOnGraph ==
  LET N == Len(pcsGraph.nodes)
  IN /\ currentIndex \in 1..N
     /\ returned.fn = "advance" =>
          LET from == returned.args[1]
              near == pcsGraph.adjacency[from]
          IN /\ returned.val[1] = currentIndex
             /\ from \in 1..N
             /\ Len(near) > 0 => currentIndex \in Range(near)

\* an advance() from a node whose only neighbour is another node, in a
\* graph that also has a third node
C11_Witness ==
  /\ returned.fn = "advance" /\ Len(pcsGraph.nodes) = 3
  /\ Len(pcsGraph.adjacency[returned.args[1]]) = 1
  /\ currentIndex # returned.args[1]

(***************************************************************************)
(* Symbolic durations                                       (SpecDuration) *)
(***************************************************************************)
\* the n of the base duration 1/n, 0 for a name that is not of that form
UnitDivisor(name) ==
  CASE name = <<"1", "/", "1">> -> 1
    [] name = <<"1", "/", "2">> -> 2
    [] name = <<"1", "/", "4">> -> 4
    [] name = <<"1", "/", "8">> -> 8
    [] name = <<"1", "/", "1", "6">> -> 16
    [] name = <<"1", "/", "3", "2">> -> 32
    [] OTHER -> 0

\* the conversion the last call used, applied to another name
SameVersion(name, b) ==
  IF returned.fn = "musicalDurationToSeconds"
  THEN musicalDurationToSeconds(name, b) ELSE musicalDurationToSecondsApp(name, b)

\* C18: for every bpm > 0 the quarter note lasts 60/bpm and the whole note
\* 4 x (60/bpm); each base duration 1/n is the whole note divided by n; the
\* dotted variant of every base duration is 1.5 times the base and the
\* triplet variant 2/3 of the base.
C18_DurationsFollowTheBeat ==
  returned.fn \in {"musicalDurationToSeconds", "musicalDurationToSecondsApp"} =>
    LET name == returned.args[1]
        b == returned.args[2]
        r == returned.val[1]
        n == UnitDivisor(name)
        base == SubSeq(name, 1, Len(name) - 1)
    IN /\ name = <<"1", "/", "4">> => Same(r, Frac(60, b))
       /\ name = <<"1", "/", "1">> => Same(r, Frac(4 * 60, b))
       /\ n > 0 => Same(Times(r, n, 1), Frac(4 * 60, b))
       /\ name[Len(name)] = "D" => Same(r, Times(SameVersion(base, b), 3, 2))
       /\ name[Len(name)] = "T" => Same(r, Times(SameVersion(base, b), 2, 3))

\* the dotted sixteenth at 7 bpm, in the version of musicEngine.ts
C18_Witness ==
  /\ returned.fn = "musicalDurationToSeconds"
  /\ returned.args = << <<"1", "/", "1", "6", "D">>, 7 >>
  /\ Same(returned.val[1], Frac(45, 14))

(***************************************************************************)
(* Odd datasets and offline generation                       (SpecOffline) *)
(***************************************************************************)
\* the calls that generate offline
Generators == {"generateMusicData", "exportToMidi", "exportToWav"}

\* C12: with a dataset of zero nodes the callers of current() treat what it
\* returns as an empty active set: start() reaches Running with no pitch
\* class active, and offline generation returns instead of failing.
C12_EmptyDatasetIsTolerated ==
  Len(pcsGraph.nodes) = 0 =>
    /\ lastOp # "startThrew"
    /\ lastOp = "start" => isPlaying /\ activePitchClasses = {}
    /\ returned.fn \in Generators => ~returned.threw

\* C13: a tick that reaches a due note while no pitch class is active creates
\* no voice and notifies no note, and it moves nextNoteTime strictly later.
C13_EmptySetIsSilentAndProgresses ==
  [][(lastOp' = "tick" /\ activePitchClasses' = {} /\ tick'.handled > 0) =>
       /\ Len(voices') <= Len(voices)
       /\ \A i \in 1..Len(tick'.log) : tick'.log[i].ev # "note"
       /\ nextNoteTime' > nextNoteTime]_vars

\* a tick that handled a due note with no pitch class active
C13_Witness ==
  lastOp = "tick" /\ activePitchClasses = {} /\ tick.handled > 0 /\ isPlaying

\* C20: generateMusicData, exportToMidi and exportToWav leave the live
\* engine as it was, Stopped or Running: the graph position, the active
\* pitch classes, both schedule times, the voices, the effect handles, the
\* connections, the tick timer and isPlaying.
C20_GenerationLeavesEngineAlone ==
  [][lastOp' = "generate" =>
       UNCHANGED << pcsGraph, currentIndex, activePitchClasses, nextNoteTime,
                    nextGraphHopTime, voices, masterGain, reverbNode, delayNode,
                    delayFeedbackGain, delayDryGain, delayWetGain, delayInputGain,
                    delayFilters, edges, isPlaying, schedulerId, timers, bpm,
                    synthParams, audioContext, clock >>]_vars

\* an export of a hyperbar with notes in it, while the engine is Running with
\* a voice in the pool
C20_Witness ==
  /\ lastOp = "generate" /\ returned.fn = "exportToWav" /\ ~returned.threw
  /\ Len(returned.val[1]) > 1 /\ isPlaying /\ Len(voices) > 0

(***************************************************************************)
(* The voice pool                                  (SpecPool, SpecCleanup) *)
(***************************************************************************)
\* the voice ended less than 0.5 s ago, or has not ended yet
EndedWithinGrace(v) == v.endTime > clock - VoiceGrace
\* the voice ended 0.5 s ago or less, or has not ended yet
EndedWithinGraceOrAtIt(v) == v.endTime >= clock - VoiceGrace

\* the node has no outgoing connection after the step
Silenced(v) == \A c \in edges' : c[1] # v.oscillator /\ c[1] # v.gainNode

\* C14: the pool never tracks more than MAX_VOICES voices; a trigger that
\* finds MAX_VOICES voices tracked after cleanup stops and removes the
\* earliest-inserted one and no other before it adds the new voice.
C14_PoolBoundedOldestEvicted ==
  /\ [](Len(voices) <= MAX_VOICES)
  /\ [][lastOp' = "triggerNote" =>
          LET kept == SelectSeq(voices, EndedWithinGraceOrAtIt)
          IN IF Len(kept) >= MAX_VOICES
             THEN /\ Len(voices') = MAX_VOICES
                  /\ SubSeq(voices', 1, MAX_VOICES - 1) = Tail(kept)
                  /\ voices'[MAX_VOICES] \notin Range(kept)
                  /\ Silenced(Head(kept))
             ELSE /\ Len(voices') = Len(kept) + 1
                  /\ SubSeq(voices', 1, Len(kept)) = kept]_vars

\* a trigger has just evicted: the pool is full and its first voice is not
\* the first voice ever made
C14_Witness ==
  /\ lastOp = "triggerNote" /\ Len(voices) = MAX_VOICES
  /\ voices[1].oscillator.id > voices[MAX_VOICES].oscillator.id

\* C15 as the specification words it: the cleanup at the start of a trigger
\* removes and disconnects every voice whose endTime lies 0.5 s or more
\* before now, and no voice whose endTime lies less than 0.5 s before now.
C15_CleanupAtHalfSecondOrMore ==
  [][lastOp' = "triggerNote" =>
       \A i \in 1..Len(voices) :
         IF EndedWithinGrace(voices[i]) THEN voices[i] \in Range(voices')
         ELSE voices[i] \notin Range(voices') /\ Silenced(voices[i])]_vars

\* C15, amended: the cleanup removes and disconnects every voice whose
\* endTime lies more than 0.5 s before now, and no voice whose endTime lies
\* 0.5 s or less before now.
C15_CleanupPastHalfSecond ==
  [][lastOp' = "triggerNote" =>
       \A i \in 1..Len(voices) :
         IF EndedWithinGraceOrAtIt(voices[i]) THEN voices[i] \in Range(voices')
         ELSE voices[i] \notin Range(voices') /\ Silenced(voices[i])]_vars

\* a trigger has kept a voice that ended exactly 0.5 s before it, and a
\* trigger has removed a voice
C15_Witness ==
  /\ lastOp = "triggerNote" /\ Len(voices) = 2
  /\ voices[1].endTime = clock - VoiceGrace

(***************************************************************************)
(* Parameter updates                                          (SpecParams) *)
(***************************************************************************)
\* the stage keeps no connection, in or out, after the step
Detached(f) == \A c \in edges' : c[1] # f /\ c[2] # f

\* the delay chain leads from the delay node through the stages, in order, to
\* the feedback gain and the wet gain
Cascaded ==
  LET n == Len(delayFilters)
  IN /\ <<delayNode, delayFilters[1]>> \in edges
     /\ \A i \in 1..(n - 1) : <<delayFilters[i], delayFilters[i + 1]>> \in edges
     /\ <<delayFilters[n], delayFeedbackGain>> \in edges
     /\ <<delayFilters[n], delayWetGain>> \in edges
     /\ \A c \in edges : c[1] = delayNode => c[2] = delayFilters[1]

\* C16: while the engine is Running the delay cascade has filterOrder / 6
\* stages (1, 2 or 4); an update that changes filterOrder replaces it with
\* newly built stages and disconnects every old one; an update that leaves
\* filterOrder unchanged keeps the same stage nodes and, if it carries delay
\* parameters, retargets their type, frequency and Q.
C16_StagesFollowFilterOrder ==
  /\ [](isPlaying =>
          /\ Len(delayFilters) = synthParams.delay.filterOrder \div 6
          /\ Len(delayFilters) \in {1, 2, 4}
          /\ Len(audioParams.filters) = Len(delayFilters)
          /\ Cascaded)
  /\ [][(lastOp' = "setSynthParams" /\ isPlaying) =>
          IF synthParams'.delay.filterOrder # synthParams.delay.filterOrder
          THEN /\ Range(delayFilters') \cap Range(delayFilters) = {}
               /\ \A f \in Range(delayFilters) : Detached(f)
          ELSE /\ delayFilters' = delayFilters
               /\ "delay" \in DOMAIN returned'.args[1] =>
                    \A i \in 1..Len(delayFilters) :
                      audioParams'.filters[i] =
                        [type |-> synthParams'.delay.filterType,
                         frequency |-> synthParams'.delay.filterFrequency,
                         Q |-> synthParams'.delay.filterResonance]]_vars

\* the cascade was rebuilt from 2 to 4 stages during playback, and then
\* retargeted in place
C16_Witness ==
  /\ isPlaying /\ lastOp = "setSynthParams" /\ Len(delayFilters) = 4
  /\ audioParams.filters[4].type = "highpass"

\* C17: whenever the effects chain exists, after its construction and after
\* every parameter update, the dry and wet targets are (1 - mix, mix) with
\* the delay enabled and (1, 0) with it disabled, so they sum to 1, and the
\* feedback target is min(feedback, 0.95) when enabled and 0 when disabled,
\* so it never exceeds 0.95.
C17_MixAndFeedbackTargets ==
  delayDryGain # Null =>
    LET p == synthParams.delay
    IN /\ audioParams.dry = (IF p.enabled THEN 100 - p.mix ELSE 100)
       /\ audioParams.wet = (IF p.enabled THEN p.mix ELSE 0)
       /\ audioParams.dry + audioParams.wet = 100
       /\ audioParams.feedback =
            (IF ~p.enabled THEN 0 ELSE IF p.feedback > 95 THEN 95 ELSE p.feedback)
       /\ audioParams.feedback <= 95

\* an update during playback asked for a feedback of 0.99 with the delay
\* enabled
C17_Witness ==
  /\ isPlaying /\ lastOp = "setSynthParams" /\ synthParams.delay.enabled
  /\ synthParams.delay.feedback = 99 /\ audioParams.feedback = 95
  /\ audioParams.wet = 50

\* every field a call of setSynthParams names, applied to the value before
BothApplied(before, params) ==
  [k \in DOMAIN before |->
     IF k \notin DOMAIN params THEN before[k]
     ELSE IF k = "maxNoteDuration" THEN params[k]
     ELSE [f \in DOMAIN before[k] |->
             IF f \in DOMAIN params[k] THEN params[k][f] ELSE before[k][f]]]

\* C19: a scheduler tick never reads parameters of which only part of one
\* setSynthParams call has been applied: when the call has returned every
\* field it names is applied, and a tick, which runs between calls, triggers
\* its notes with the release and the note length of one and the same
\* parameter set, the one in force.
C19_TicksSeeWholeUpdates ==
  /\ [](lastOp = "setSynthParams" =>
          synthParams = BothApplied(returned.val[1], returned.args[1]))
  /\ [][lastOp' = "tick" =>
          /\ synthParams' = synthParams
          /\ \A i \in 1..Len(voices') :
               voices'[i] \notin Range(voices) =>
                 \E r \in DurDraws :
                   voices'[i].endTime - voices'[i].startTime =
                     (synthParams.maxNoteDuration * (100 + r)) \div 200
                     + synthParams.envelope.release]_vars

\* a tick has triggered a note after an update that changed the release and
\* the note length in one call
C19_Witness ==
  /\ lastOp = "tick" /\ tick.handled > 0 /\ Len(voices) > 0
  /\ returned.fn = "setSynthParams"
  /\ synthParams.envelope.release = 300 /\ synthParams.maxNoteDuration = 600
  /\ voices[Len(voices)].endTime - voices[Len(voices)].startTime = 600

(***************************************************************************)
(* Exports                                                                 *)
(***************************************************************************)
\* the step is the second of two exports of one kind, from the same notes,
\* parameters and tempo
SecondOfSame(kinds) ==
  /\ returned.fn \in kinds /\ returned'.fn = returned.fn
  /\ returned.nth = 1 /\ returned'.nth = 2
  /\ ~returned.threw /\ ~returned'.threw
  /\ returned'.notes = returned.notes
  /\ returned'.params = returned.params
  /\ returned'.bpm = returned.bpm

\* C21: the exported WAV and MIDI bytes are a function of the NoteEvent
\* sequence, the SynthParams and the bpm alone: a second export from the
\* same three yields the same bytes as the first.
C21_ExportsArePure ==
  [][SecondOfSame({"exportToWav", "exportToMidi"}) => returned'.val = returned.val]_vars

\* the MIDI half of C21 on its own
MidiExportsArePure ==
  [][SecondOfSame({"exportToMidi"}) => returned'.val = returned.val]_vars

(***************************************************************************)
(* Offline generation and playback                                         *)
(***************************************************************************)
\* a generation from the state of the engine that drew the delay d0 first
\* and whose notes begin with those followed
Generated(l) ==
  \E out \in generateMusicData(World, MaxHyperbars, FirstDraws \cup LaterDraws) :
    /\ ~out.threw /\ out.d0 = l.d0
    /\ Len(out.trace) >= Len(l.trace)
    /\ SubSeq(out.trace, 1, Len(l.trace)) = l.trace

\* C22: with the clock starting at 0 and every tick on time, the notes of a
\* playback, each with its onset and the number of graph advances made before
\* it, are those generateMusicData yields from the same draws.
C22_GenerationFollowsPlayback == lived.started => Generated(lived)

\* the same for the playbacks whose first delay drawn is not 0
PositiveFirstDraw == lived.started /\ lived.d0 > 0 => Generated(lived)

(***************************************************************************)
(* The MIDI file read back                                                 *)
(***************************************************************************)
\* a variable-length quantity read at position p: its value and the
\* position after it
RECURSIVE readVariableLength(_, _, _)
readVariableLength(bytes, p, sofar) ==
  IF p > Len(bytes) THEN [value |-> 0 - 1, next |-> p]
  ELSE IF bytes[p] >= 128
  THEN readVariableLength(bytes, p + 1, sofar * 128 + (bytes[p] - 128))
  ELSE [value |-> sofar * 128 + bytes[p], next |-> p + 1]

\* the events of a track read from position p on, each with its tick
RECURSIVE readEvents(_, _, _)
readEvents(bytes, p, before) ==
  IF p > Len(bytes) THEN <<>>
  ELSE LET delta == readVariableLength(bytes, p, 0)
           t == before + delta.value
           q == delta.next
       IN IF delta.value < 0 \/ q + 2 > Len(bytes)
          THEN <<[tick |-> t, type |-> "cut"]>>
          ELSE IF bytes[q] = 255
          THEN <<[tick |-> t, type |-> "meta", kind |-> bytes[q + 1],
                  data |-> SubSeq(bytes, q + 3, q + 2 + bytes[q + 2])]>>
               \o readEvents(bytes, q + 3 + bytes[q + 2], t)
          ELSE <<[tick |-> t, type |-> IF bytes[q] = 144 THEN "on" ELSE "off",
                  note |-> bytes[q + 1], velocity |-> bytes[q + 2]]>>
               \o readEvents(bytes, q + 3, t)

\* the bytes after the 14 bytes of the header chunk and the 8 of the track header
TrackOf(file) == SubSeq(file, 23, Len(file))

MidiExported == returned.fn = "exportToMidi" /\ ~returned.threw
ExportedEvents == readEvents(TrackOf(returned.val[1]), 1, 0)
ExportedNotes == SelectSeq(ExportedEvents, LAMBDA e : e.type # "meta")

\* Math.round(seconds * 480 * bpm / 60), the seconds in milliseconds
ExpectedTick(ms, b) == (ms * 480 * b + 30000) \div 60000

\* how many events of the track are of this kind, tick and note
Written(type, t, note) ==
  Cardinality({i \in 1..Len(ExportedNotes) :
                 /\ ExportedNotes[i].type = type /\ ExportedNotes[i].tick = t
                 /\ ExportedNotes[i].note = note})

\* how many notes of the export ask for an event of this kind, tick and note
Asked(type, t, note) ==
  Cardinality({i \in 1..Len(returned.notes) :
                 /\ returned.notes[i].midiNote = note
                 /\ t = ExpectedTick(IF type = "on" THEN returned.notes[i].startTime
                                        ELSE returned.notes[i].startTime
                                             + returned.notes[i].duration,
                                        returned.bpm)})

\* C23: in the track of an exported MIDI file every note has one note-on at
\* the rounded tick of its start and one note-off at the rounded tick of its
\* end, and nothing else is a note event; the ticks never decrease, and on
\* one tick the note-offs come before the note-ons.
C23_NoteEventsInTickOrder ==
  MidiExported =>
    /\ Len(ExportedNotes) = 2 * Len(returned.notes)
    /\ \A i \in 1..Len(ExportedNotes) :
         Written(ExportedNotes[i].type, ExportedNotes[i].tick, ExportedNotes[i].note)
           = Asked(ExportedNotes[i].type, ExportedNotes[i].tick, ExportedNotes[i].note)
    /\ \A i \in 1..Len(ExportedNotes), j \in 1..Len(ExportedNotes) :
         i < j => /\ ExportedNotes[i].tick <= ExportedNotes[j].tick
                  /\ ExportedNotes[i].tick = ExportedNotes[j].tick
                       => ~(ExportedNotes[i].type = "on" /\ ExportedNotes[j].type = "off")

\* an export of two notes, the second starting on the tick the first ends on
C23_Witness ==
  /\ MidiExported /\ Len(returned.notes) = 2
  /\ \E i \in 1..Len(ExportedNotes), j \in 1..Len(ExportedNotes) :
       /\ ExportedNotes[i].type = "off" /\ ExportedNotes[j].type = "on"
       /\ ExportedNotes[i].tick = ExportedNotes[j].tick

\* the events of the export as exportToMidi sorted them
SortedEvents ==
  sortEvents(noteEvents(returned.notes, returned.bpm), returned.build)

VariableLengthWritten == returned.fn = "writeVariableLength"
\* 2^28 - 1, the largest value of four groups of seven bits
MaxFourBytes == 128 * 128 * 128 * 128 - 1

\* C24: the delta times of an exported track, decoded and summed in order,
\* are the ticks of the sorted events; and writeVariableLength writes a value
\* of 0 .. 2^28 - 1 as one to four bytes, the most significant group of seven
\* bits first, the high bit set on every byte but the last, which decode to
\* the value.
C24_VariableLengthRoundTrip ==
  /\ MidiExported =>
       /\ Len(ExportedNotes) = Len(SortedEvents)
       /\ \A i \in 1..Len(SortedEvents) : ExportedNotes[i].tick = SortedEvents[i].tick
  /\ (VariableLengthWritten /\ returned.args[1] \in 0..MaxFourBytes) =>
       LET bytes == returned.val[1]
       IN /\ Len(bytes) \in 1..4
          /\ \A i \in 1..Len(bytes) :
               /\ bytes[i] \in 0..255
               /\ (bytes[i] >= 128) = (i < Len(bytes))
          /\ readVariableLength(bytes, 1, 0)
               = [value |-> returned.args[1], next |-> Len(bytes) + 1]

\* the largest value of four bytes has been written
C24_Witness ==
  /\ VariableLengthWritten /\ returned.args[1] = MaxFourBytes
  /\ returned.val[1] = <<255, 255, 255, 127>>

\* an exported track with a delta time of two bytes
C24_LongDelta ==
  /\ MidiExported
  /\ \E i \in 2..Len(SortedEvents) : SortedEvents[i].tick - SortedEvents[i - 1].tick >= 128

ExportedFile == returned.val[1]

\* a sequence of bytes read as one number, the most significant byte first
RECURSIVE bigEndian(_)
bigEndian(bytes) ==
  IF bytes = <<>> THEN 0
  ELSE 256 * bigEndian(SubSeq(bytes, 1, Len(bytes) - 1)) + bytes[Len(bytes)]

\* Math.round(60000000 / bpm)
ExpectedTempo(b) == (2 * 60000000 + b) \div (2 * b)

\* C25: an exported MIDI file is an MThd chunk of length 6, format 0, one
\* track, division 480, and one MTrk chunk whose length field counts the
\* track bytes after it; the track holds, in order, the tempo meta event of
\* three bytes carrying round(60000000 / bpm), the 4/4 time signature, the
\* note events, and one end-of-track meta event, the last event of the track.
C25_MidiFileStructure ==
  MidiExported =>
    LET events == ExportedEvents
        n == Len(events)
    IN /\ SubSeq(ExportedFile, 1, 4) = <<77, 84, 104, 100>>
       /\ bigEndian(SubSeq(ExportedFile, 5, 8)) = 6
       /\ bigEndian(SubSeq(ExportedFile, 9, 10)) = 0
       /\ bigEndian(SubSeq(ExportedFile, 11, 12)) = 1
       /\ bigEndian(SubSeq(ExportedFile, 13, 14)) = 480
       /\ SubSeq(ExportedFile, 15, 18) = <<77, 84, 114, 107>>
       /\ bigEndian(SubSeq(ExportedFile, 19, 22)) = Len(ExportedFile) - 22
       /\ \A i \in 1..Len(ExportedFile) : ExportedFile[i] \in 0..255
       /\ n = 2 * Len(returned.notes) + 3
       /\ events[1].type = "meta" /\ events[1].kind = 81 /\ events[1].tick = 0
       /\ Len(events[1].data) = 3
       /\ bigEndian(events[1].data) = ExpectedTempo(returned.bpm)
       /\ ExpectedTempo(returned.bpm) < 256 * 256 * 256
       /\ events[2].type = "meta" /\ events[2].kind = 88 /\ events[2].tick = 0
       /\ events[2].data = <<4, 2, 24, 8>>
       /\ \A i \in 3..(n - 1) : events[i].type \in {"on", "off"}
       /\ events[n].type = "meta" /\ events[n].kind = 47 /\ events[n].data = <<>>
       /\ \A i \in 1..(n - 1) : events[i].type = "meta" => events[i].kind # 47

\* the export of no notes at the slowest tempo: 22 bytes of headers and the
\* three meta events
C25_Witness ==
  /\ MidiExported /\ returned.notes = <<>> /\ returned.bpm = 20
  /\ Len(ExportedFile) = 41

(***************************************************************************)
(* The WAV file read back                                                  *)
(***************************************************************************)
\* a sequence of bytes read as one number, the least significant byte first
RECURSIVE littleEndian(_)
littleEndian(bytes) ==
  IF bytes = <<>> THEN 0 ELSE bytes[1] + 256 * littleEndian(Tail(bytes))

WavExported == returned.fn = "exportToWav" /\ ~returned.threw
WavWritten == WavExported \/ returned.fn = "audioBufferToWav"

\* the buffer handed to audioBufferToWav and the file it wrote
WrittenBuffer ==
  IF returned.fn = "exportToWav" THEN trimSilence(returned.rendered[1])
  ELSE returned.args[1]
WavFile == returned.val[1]

\* C26: audioBufferToWav writes a header of 44 bytes whose data size is
\* frames x channels x 2, the number of bytes after the header, whose RIFF
\* size is 36 + frames x channels x 2, eight less than the length of the
\* file, with blockAlign = channels x 2 and byteRate = sampleRate x blockAlign.
C26_WavHeaderArithmetic ==
  WavWritten =>
    LET F == WrittenBuffer.length
        C == WrittenBuffer.numberOfChannels
        declaredRiff == littleEndian(SubSeq(WavFile, 5, 8))
        declaredData == littleEndian(SubSeq(WavFile, 41, 44))
        blockAlign == littleEndian(SubSeq(WavFile, 33, 34))
        byteRate == littleEndian(SubSeq(WavFile, 29, 32))
    IN /\ Len(WavFile) >= 44
       /\ SubSeq(WavFile, 37, 40) = <<100, 97, 116, 97>>
       /\ declaredData = F * C * 2
       /\ declaredData = Len(WavFile) - 44
       /\ declaredRiff = 36 + F * C * 2
       /\ Len(WavFile) = declaredRiff + 8
       /\ littleEndian(SubSeq(WavFile, 23, 24)) = C
       /\ littleEndian(SubSeq(WavFile, 25, 28)) = WrittenBuffer.sampleRate
       /\ blockAlign = C * 2
       /\ byteRate = WrittenBuffer.sampleRate * blockAlign

\* the file of a rendering of no notes
C26_Witness ==
  /\ WavExported /\ returned.notes = <<>>
  /\ WrittenBuffer.length > 0 /\ Len(WavFile) = 44 + WrittenBuffer.length * 4

\* the file of a buffer without frames, at 44100 frames a second
C26_NoFrames ==
  /\ returned.fn = "audioBufferToWav" /\ WrittenBuffer.length = 0
  /\ WrittenBuffer.sampleRate = 44100 /\ Len(WavFile) = 44

\* start() has just run to its end
StartReturned == lastOp = "start"

\* the node start() takes as the output of the delay stage
DelayStageOutput ==
  IF delayDryGain # Null /\ delayWetGain # Null
  THEN Node("mixNode", masterGain.id, 0) ELSE masterGain

\* the gains start() puts before and after the reverb
ReverbGains ==
  {Node("dryGain", masterGain.id, 0), Node("wetGain", masterGain.id, 0)}

\* C27: a start() in which the reverb could not be built does not fail: the
\* engine is Running with the scheduler loop started, the reverb handle is
\* null, and the output of the delay stage is connected to the destination
\* itself, no dry or wet reverb gain being wired.
C27_StartWithoutReverb ==
  /\ lastOp # "startThrew"
  /\ (StartReturned /\ reverbNode = Null) =>
       /\ isPlaying /\ startResult = "resolved" /\ playState = "true"
       /\ timers # {}
       /\ <<DelayStageOutput, destination>> \in edges
       /\ \A e \in edges : e[1] \notin ReverbGains /\ e[2] \notin ReverbGains

\* start() has returned with no reverb, the delay chain built
C27_Witness ==
  /\ StartReturned /\ reverbNode = Null /\ isPlaying
  /\ delayNode # Null /\ DelayStageOutput # masterGain

TimingChanges ==
  nextNoteTime' # nextNoteTime \/ nextGraphHopTime' # nextGraphHopTime
TimingDecreases ==
  nextNoteTime' < nextNoteTime \/ nextGraphHopTime' < nextGraphHopTime

\* C28: nextNoteTime and nextGraphHopTime are assigned by start(), which
\* seeds them from the clock, and by the scheduler tick only; stop() and the
\* parameter setters leave them alone, and a scheduler tick never decreases
\* either of them.
C28_TimingSeededThenAdvanced ==
  [][/\ TimingChanges => lastOp' \in {"start", "tick"}
     /\ lastOp' # "start" => ~TimingDecreases]_vars

\* C28 as stated: neither value ever decreases, whatever the operation, and
\* only the scheduler tick changes them.
C28_TimingNeverDecreases ==
  [][/\ ~TimingDecreases
     /\ TimingChanges => lastOp' = "tick"]_vars

\* no operation ever decreases either value
C28_NoDecrease == [][~TimingDecreases]_vars

\* a tick has moved the next graph hop and the next note onwards
C28_Witness ==
  /\ lastOp = "tick" /\ tick.ran
  /\ tick.hopAt < nextGraphHopTime /\ tick.now < nextNoteTime
  /\ Len(tick.log) > 1

\* the length the delay line is aimed at is the one of the current tempo
DelayInStep ==
  audioParams.delayTime = durationMs(synthParams.delay.duration, bpm)

\* C29: while the engine is Running, after any sequence of setBpm and
\* setSynthParams calls the length the delay line is aimed at is
\* musicalDurationToSeconds(delay.duration, bpm) for the current tempo and
\* the current delay.duration.
C29_DelayFollowsTempo ==
  (isPlaying /\ delayNode # Null) => DelayInStep

\* right after start() and after a setSynthParams that carries a delay part
\* the delay is in step
C29_DelaySetWhenAsked ==
  /\ (isPlaying /\ lastOp = "start") => DelayInStep
  /\ (isPlaying /\ lastOp = "setSynthParams" /\ "delay" \in DOMAIN returned.args[1])
       => DelayInStep

\* the automation of a voice runs forwards in time
StagesInOrder(v) ==
  \A i \in 1..4 : v.automation[i].time <= v.automation[i + 1].time

\* the values of the automation: 0, peak, peak x sustain twice, 0
StageValues(v) ==
  /\ v.automation[1].value = 0 /\ v.automation[2].value = PeakLevel
  /\ v.automation[3].value = v.automation[4].value
  /\ v.automation[3].value <= PeakLevel /\ v.automation[3].value >= 0
  /\ v.automation[5].value = 0

\* C30: for every note triggered, whatever envelope and maxNoteDuration the
\* control surface has supplied, the envelope stages are scheduled in the
\* order attack, decay, hold, release (t0 <= t0 + attack <= t0 + attack +
\* decay <= t0 + d <= t0 + d + release) with the values 0, 0.3, 0.3 x
\* sustain, 0.3 x sustain, 0, none above the peak.
C30_EnvelopeStagesInOrder ==
  \A i \in 1..Len(voices) : StagesInOrder(voices[i]) /\ StageValues(voices[i])

\* the scheduled values alone
C30_EnvelopeValues ==
  \A i \in 1..Len(voices) : StageValues(voices[i])

\* a note whose decay is scheduled to end after its release has begun
C30_DecayAfterRelease ==
  \E i \in 1..Len(voices) :
    voices[i].automation[3].time > voices[i].automation[4].time

MusicGenerated == returned.fn = "generateMusicData" /\ ~returned.threw

\* four bars, in milliseconds
HopPeriod == 4 * barSeconds(returned.bpm)

C31_OnBoundary ==
  /\ MusicGenerated
  /\ \E i \in 1..Len(returned.trace) :
       returned.trace[i].onset = HopPeriod /\ returned.trace[i].advances = 1

GeneratedNotes == returned.val[1]

\* C32: generateMusicData(h) returns, for every h >= 0 and every sequence of
\* draws, notes whose start times are strictly increasing multiples of the
\* sixteenth note within [0, h x 8 x barSeconds), h x 128 notes at most.
C32_GenerationIsBounded ==
  returned.fn = "generateMusicData" =>
    /\ ~returned.threw
    /\ \A i \in 1..Len(GeneratedNotes) :
         /\ GeneratedNotes[i].startTime % sixteenthSeconds(returned.bpm) = 0
         /\ GeneratedNotes[i].startTime >= 0
         /\ GeneratedNotes[i].startTime < returned.args[1] * 8 * barSeconds(returned.bpm)
         /\ i > 1 => GeneratedNotes[i - 1].startTime < GeneratedNotes[i].startTime
    /\ Len(GeneratedNotes) <= returned.args[1] * 128

\* a generation whose draws were 0 twice: a note at 0 and one a sixteenth on
C32_Witness ==
  /\ MusicGenerated /\ Len(GeneratedNotes) >= 2
  /\ GeneratedNotes[1].startTime = 0
  /\ GeneratedNotes[2].startTime = sixteenthSeconds(returned.bpm)

\* a generation of no hyperbar returns no note
C32_NoHyperbar ==
  MusicGenerated /\ returned.args[1] = 0 /\ GeneratedNotes = <<>>

SilenceTrimmed == returned.fn = "trimSilence"
Untrimmed == returned.args[1]
Trimmed == returned.val[1]

\* the sample of frame i (from 1) in channel ch is louder than 0.001
Loud(buffer, ch, i) ==
  buffer.data[ch][i] > Threshold \/ buffer.data[ch][i] < 0 - Threshold

\* the frames up to the last one that is loud in some channel
SoundingFrames(buffer) ==
  LET loud == {i \in 1..buffer.length :
                 \E ch \in 1..buffer.numberOfChannels : Loud(buffer, ch, i)}
  IN IF loud = {} THEN 0 ELSE CHOOSE i \in loud : \A j \in loud : j <= i

\* the frames after them
TrailingSilence(buffer) == buffer.length - SoundingFrames(buffer)

\* the result is the start of the buffer, and no loud sample is cut
CutsTailOnly ==
  /\ Trimmed.numberOfChannels = Untrimmed.numberOfChannels
  /\ Trimmed.sampleRate = Untrimmed.sampleRate
  /\ Trimmed.length <= Untrimmed.length
  /\ \A ch \in 1..Untrimmed.numberOfChannels :
       /\ Len(Trimmed.data[ch]) = Trimmed.length
       /\ Trimmed.data[ch] = SubSeq(Untrimmed.data[ch], 1, Trimmed.length)
       /\ \A i \in (Trimmed.length + 1)..Untrimmed.length : ~Loud(Untrimmed, ch, i)

\* at most half a second is kept after the last loud sample
KeepsHalfSecond ==
  2 * (Trimmed.length - SoundingFrames(Untrimmed)) <= Untrimmed.sampleRate

\* C33: trimSilence returns the start of the buffer with every kept sample
\* unchanged and cuts no sample louder than 0.001 in any channel; a buffer
\* that ends with more than 1.5 s of samples at or below 0.001 keeps at most
\* 0.5 s of them after the last louder sample.
C33_TrimsLongSilence ==
  SilenceTrimmed =>
    /\ CutsTailOnly
    /\ 2 * TrailingSilence(Untrimmed) > 3 * Untrimmed.sampleRate => KeepsHalfSecond

\* C33 as stated: at most 0.5 s is kept whenever the buffer ends with more
\* than 0.5 s of samples at or below 0.001.
C33_TrimsSilenceOverHalfSecond ==
  SilenceTrimmed =>
    /\ CutsTailOnly
    /\ 2 * TrailingSilence(Untrimmed) > Untrimmed.sampleRate => KeepsHalfSecond

\* a buffer with a loud sample and more than 1.5 s after it has been cut
C33_Witness ==
  /\ SilenceTrimmed /\ SoundingFrames(Untrimmed) = 2
  /\ 2 * TrailingSilence(Untrimmed) > 3 * Untrimmed.sampleRate
  /\ Trimmed.length = 2 /\ Untrimmed.length = 6

\* two bytes read as a signed 16-bit number, the low byte first
signed16(bytes) ==
  LET u == bytes[1] + 256 * bytes[2] IN IF u >= 32768 THEN u - 65536 ELSE u

\* the 16-bit value of a sample x: clamped to [-1, 1], a negative value
\* times 32768 and another times 32767, the fraction dropped
ExpectedSample(x) ==
  IF x < 0 THEN 0 - ((32768 * (IF 0 - x > Unit THEN Unit ELSE 0 - x)) \div Unit)
  ELSE (32767 * (IF x > Unit THEN Unit ELSE x)) \div Unit

\* where the sample of frame f (from 1) and channel ch (from 1) is written
SampleOffset(f, ch) == 44 + 2 * ((f - 1) * WrittenBuffer.numberOfChannels + (ch - 1))

\* C34: every sample audioBufferToWav writes is a 16-bit value within
\* [-32768, 32767] that has not wrapped: the input sample clamped to [-1, 1]
\* and scaled by 32768 if negative, by 32767 otherwise, written little-endian
\* frame by frame with the channels of a frame in channel order.
C34_SamplesClampedAndInterleaved ==
  WavWritten =>
    \A f \in 1..WrittenBuffer.length, ch \in 1..WrittenBuffer.numberOfChannels :
      LET bytes == SubSeq(WavFile, SampleOffset(f, ch) + 1, SampleOffset(f, ch) + 2)
          x == WrittenBuffer.data[ch][f]
      IN /\ bytes[1] \in 0..255 /\ bytes[2] \in 0..255
         /\ signed16(bytes) \in (0 - 32768)..32767
         /\ signed16(bytes) = ExpectedSample(x)

\* two channels written: a sample below -1 as -32768, then a sample of 1 as
\* 32767, then the second frame
C34_Witness ==
  /\ returned.fn = "audioBufferToWav"
  /\ WrittenBuffer.numberOfChannels = 2 /\ WrittenBuffer.length = 2
  /\ WrittenBuffer.data[1][1] < 0 - Unit /\ WrittenBuffer.data[2][1] = Unit
  /\ WrittenBuffer.data[1][2] = 0 - 1
  /\ SubSeq(WavFile, 45, 50) = <<0, 128, 255, 127, 253, 255>>

\* C35: in every reachable state at most one scheduler tick timer is
\* pending, so at most one scheduling loop is active, also when start() is
\* called again while an earlier start() awaits the playback clock and when
\* start() follows stop() within a tick period.
C35_OneSchedulerLoop == Cardinality(timers) <= 1

\* the timer the engine remembers is the only one pending
C35_OnlyTheTimerKept == timers \subseteq {schedulerId}

\* C36: between operations the value of the last play-state-changed
\* notification is isPlaying, false standing for no notification yet, after
\* any sequence of start(), stop(), failed starts and ticks.
C36_NotificationMirrorsPlayState == isPlaying <=> playState = "true"

\* a start() has failed after the engine had played and been stopped: the
\* last notification says false
C36_Witness ==
  /\ lastOp = "startFailed" /\ ~isPlaying /\ playState = "false"
  /\ audioContext # "none"

\* C37: whenever the engine is Running and every request to the backend has
\* completed, the playback clock is running, not suspended.
C37_RunningOnRunningClock ==
  (isPlaying /\ backendQ = <<>>) => audioContext = "running"

\* a Running engine whose start() found the clock running has it running
\* for as long as no suspend request is pending or completed
C37_RunningWhenStarted ==
  (isPlaying /\ lastOp = "start") => audioContext = "running"

(***************************************************************************)
(* C38: the voice pool drains                                 (SpecVoices) *)
(***************************************************************************)
\* the longest a voice of the default parameters stays in the pool once the
\* notes keep coming: its length and release, the grace of cleanupOldVoices,
\* the longest gap between two notes and the look-ahead
LongestStay ==
  DEFAULT_SYNTH_PARAMS.maxNoteDuration + DEFAULT_SYNTH_PARAMS.envelope.release
    + VoiceGrace + 2000 + LookAhead + 2 * TickPeriod

\* a voice that started early enough to be cleaned up within the horizon
EarlyVoice == \E i \in 1..Len(voices) : voices[i].startTime + LongestStay <= VoiceHorizon

StopEmptiesPool == lastOp' = "stop" => voices' = <<>>

\* C38: while the engine keeps running with a non-empty active pitch-class
\* set, a positive note rate and an advancing clock, every voice added to the
\* pool is eventually removed from it, and stop() removes every voice that
\* is still in the pool.
C38_VoicesEventuallyRemoved ==
  /\ [][StopEmptiesPool]_vars
  /\ (<>[]~EarlyVoice) \/ []<>(lastOp = "stop")

\* never stopped, late on the clock, and the oldest voice of the pool started
\* long after the first note: the earlier ones have been cleaned up
C38_Witness ==
  /\ isPlaying /\ backendQ = <<>> /\ clock >= 6000
  /\ voices # <<>> /\ voices[1].startTime >= 3000

(***************************************************************************)
(* C39: the delay length and the 5 s delay line             (SpecDuration) *)
(***************************************************************************)
\* createDelay(5.0): the longest delay the node applies, in seconds
MaxDelayTime == 5

\* musicalDurationToSeconds was called with a duration the UI offers and a
\* tempo setBpm lets through
DelayLengthAsked ==
  /\ returned # NoCall /\ returned.fn = "musicalDurationToSeconds"
  /\ returned.args[1] \in MUSICAL_DURATIONS
  /\ returned.args[2] >= 20 /\ returned.args[2] <= 300

\* C39: for every bpm in [20, 300] and every symbolic duration offered, the
\* delay length musicalDurationToSeconds(duration, bpm) does not exceed the
\* 5 s maximum of the delay line.
C39_DelayWithinMaximum ==
  DelayLengthAsked => returned.val[1].n <= MaxDelayTime * returned.val[1].d

\* from 80 bpm up every offered duration fits the delay line
C39_FitsFromEightyBpm ==
  (DelayLengthAsked /\ returned.args[2] >= 80)
     => returned.val[1].n <= MaxDelayTime * returned.val[1].d

(***************************************************************************)
(* C40: a note-off after its note-on, note numbers of seven bits (SpecNotes) *)
(***************************************************************************)
\* a MIDI file was written, by an export or for one drawn note
NotesWritten ==
  returned # NoCall /\ returned.fn \in {"exportToMidi", "generateNote"} /\ ~returned.threw

\* the events of the track up to position j that are of this kind and note
Before(j, type, note) ==
  Cardinality({i \in 1..j : ExportedNotes[i].type = type /\ ExportedNotes[i].note = note})

\* C40: in the track exportToMidi writes, every note's note-off is on a later
\* tick than its note-on, for every accepted bpm and every maxNoteDuration, so
\* no note-off is written ahead of its note-on; and every note number is in
\* [48, 95], written as it was drawn.
C40_NoteOffAfterNoteOn ==
  NotesWritten =>
    /\ \A k \in 1..Len(returned.notes) :
         \E i \in 1..Len(SortedEvents), j \in 1..Len(SortedEvents) :
           /\ i < j
           /\ SortedEvents[i].type = "on" /\ SortedEvents[j].type = "off"
           /\ SortedEvents[i].note = returned.notes[k].midiNote
           /\ SortedEvents[j].note = returned.notes[k].midiNote
           /\ SortedEvents[i].tick = ExpectedTick(returned.notes[k].startTime, returned.bpm)
           /\ SortedEvents[j].tick = ExpectedTick(returned.notes[k].startTime
                                                    + returned.notes[k].duration,
                                                  returned.bpm)
           /\ SortedEvents[j].tick > SortedEvents[i].tick
    /\ \A j \in 1..Len(ExportedNotes) :
         /\ Before(j, "off", ExportedNotes[j].note) <= Before(j, "on", ExportedNotes[j].note)
         /\ ExportedNotes[j].note \in 48..95
         /\ \E k \in 1..Len(returned.notes) :
              returned.notes[k].midiNote = ExportedNotes[j].note

\* the shortest note there is (a triplet thirty-second at the shortest draw)
\* at the highest pitch drawn, at 300 bpm
C40_Witness ==
  /\ NotesWritten /\ returned.fn = "generateNote" /\ returned.bpm = 300
  /\ synthParams.maxNoteName = <<"1", "/", "3", "2", "T">>
  /\ returned.args[2] = <<99, 99, 0>>
  /\ Len(ExportedNotes) = 2 /\ ExportedNotes[1].type = "on"
  /\ ExportedNotes[2].tick > ExportedNotes[1].tick

====
